---------------------------- MODULE Spec2Model ----------------------------
(***************************************************************************)
(* UVB-76 live stream decoder (src/uvb76_stream_decoder.py).               *)
(*                                                                         *)
(* Units.  Frequencies are integers in hundredths of a hertz (21.53 Hz is  *)
(* 2153), magnitudes are integers, byte counts are bytes, and time is an   *)
(* integer clock that every reading of time.time() advances.  A Python     *)
(* None is the integer None (-1) where the attribute otherwise holds a     *)
(* number, and the record NoState where it otherwise holds a label.        *)
(***************************************************************************)
EXTENDS Integers, Sequences, FiniteSets, TLC

(***************************************************************************)
(* Program constants                                                       *)
(***************************************************************************)
sample_rate == 44100
chunk_size == 4096
freq_1 == 2153
freq_2 == 2692
freq_3 == 3230
freq_tolerance == 50
min_signal_strength == 15
max_waterfall_lines == 100
frequency_buffer_maxlen == 1000
binary_buffer_maxlen == 500
fsk_state_history_maxlen == 50
None == -1

\* the three configured tones, in the order the dictionary is iterated
uvb76_frequencies == <<freq_1, freq_2, freq_3>>

NoState == [name |-> "None", hz |-> 0]

(***************************************************************************)
(* Bounds of the model                                                     *)
(***************************************************************************)
MaxToneCalls == 3
MaxPasses == 3
MaxRingPasses == 800
MaxSessions == 2
MaxChunks == 3

\* frequencies handed to the classifier when it is exercised on its own:
\* out of band, the edges of the wide and of the tight bands, the tones
ToneFreqs == {1900, 2053, 2100, 2103, 2153, 2203, 2204, 2692, 2742, 2743, 3230, 3600}
ToneMags == {20}

VARIABLES
    is_streaming,        \* self.is_streaming
    status_var,          \* self.status_var (the status line)
    audio_queue,         \* self.audio_queue, a FIFO of chunks
    frequency_buffer, binary_buffer, time_buffer, audio_level_buffer,
    waterfall_data, waterfall_times,
    binary_log, frequency_log, waterfall_log,
    log_binary_var, log_frequency_var, log_waterfall_var,
    session_start_time,
    bytes_received, chunks_processed, last_audio_time,
    current_fsk_state, last_fsk_change, fsk_state_history,
    clock,               \* the last value time.time() returned
    call,                \* the last classifier call: its argument and results
    passes,              \* history: the peak each analysis pass of the session saw
    source,              \* the synthetic stream: the peak bins it repeats, if any
    session,             \* how many times start_stream has created its two threads
    stream_thread,       \* the producer thread of every session (stream_audio)
    analysis_thread,     \* the consumer thread of every session (analyze_audio)
    frame,               \* the call of process_audio_chunk in progress, if any
    view,                \* what the last display refresh found (update_plots)
    report               \* the last PatternReport: the bits and what was returned

toneVars == <<current_fsk_state, last_fsk_change, fsk_state_history>>
bufVars == <<frequency_buffer, binary_buffer, time_buffer, audio_level_buffer,
             waterfall_data, waterfall_times>>
logVars == <<binary_log, frequency_log, waterfall_log>>
optVars == <<log_binary_var, log_frequency_var, log_waterfall_var>>
countVars == <<bytes_received, chunks_processed, last_audio_time>>
sessVars == <<is_streaming, status_var, audio_queue, session_start_time>>
threadVars == <<session, stream_thread, analysis_thread>>
stepVars == <<frame, view>>

vars == <<toneVars, bufVars, logVars, optVars, countVars, sessVars, threadVars,
          clock, call, passes, source, stepVars, report>>

(***************************************************************************)
(* Helpers                                                                 *)
(***************************************************************************)
Abs(x) == IF x < 0 THEN 0 - x ELSE x

Min(a, b) == IF a <= b THEN a ELSE b

\* a bounded buffer that refuses the new entry when full
DequeAppend_dropnew(q, x, maxlen) ==
    IF Len(q) >= maxlen THEN q ELSE Append(q, x)

\* collections.deque(maxlen = n).append(x): the oldest entry is evicted
DequeAppend(q, x, maxlen) ==
    IF Len(q) >= maxlen THEN Append(Tail(q), x) ELSE Append(q, x)

\* time.time(): a later reading never returns an earlier value
TimeNow == clock + 1

(***************************************************************************)
(* ToneClassifier                                                          *)
(***************************************************************************)
frequency_to_binary_debug_strict(frequency) ==
    IF Abs(frequency - freq_1) < freq_tolerance THEN 0
    ELSE IF Abs(frequency - freq_2) < freq_tolerance THEN 1
    ELSE None

frequency_to_binary_debug(frequency) ==
    IF Abs(frequency - freq_1) <= freq_tolerance THEN 0
    ELSE IF Abs(frequency - freq_2) <= freq_tolerance THEN 1
    ELSE IF Abs(frequency - freq_3) <= freq_tolerance THEN None
    ELSE IF 2000 <= frequency /\ frequency <= 3500 THEN None
    ELSE None

\* new_state of update_fsk_state: the label of the state
fsk_label(frequency) ==
    IF Abs(frequency - freq_1) <= freq_tolerance THEN [name |-> "FSK-1", hz |-> freq_1]
    ELSE IF Abs(frequency - freq_2) <= freq_tolerance THEN [name |-> "FSK-2", hz |-> freq_2]
    ELSE IF Abs(frequency - freq_3) <= freq_tolerance THEN [name |-> "FSK-3", hz |-> freq_3]
    ELSE [name |-> "Unknown", hz |-> frequency]

\* x or y, for a timestamp x that may be None (or 0.0)
OrElse(x, y) == IF x = None \/ x = 0 THEN y ELSE x

\* update_fsk_state recording every classification, a change or not
update_fsk_state_always(frequency, magnitude, current_time) ==
    LET new_state == fsk_label(frequency) IN
    /\ last_fsk_change' = current_time
    /\ fsk_state_history' = DequeAppend(fsk_state_history,
           [state |-> new_state, frequency |-> frequency,
            magnitude |-> magnitude, timestamp |-> current_time,
            duration |-> current_time - OrElse(last_fsk_change', current_time)],
           fsk_state_history_maxlen)
    /\ current_fsk_state' = new_state

\* update_fsk_state(frequency, magnitude), reading time.time() as current_time
update_fsk_state(frequency, magnitude, current_time) ==
    LET new_state == fsk_label(frequency) IN
    IF new_state # current_fsk_state
    THEN /\ last_fsk_change' = current_time
         /\ fsk_state_history' = DequeAppend(fsk_state_history,
                [state |-> new_state, frequency |-> frequency,
                 magnitude |-> magnitude, timestamp |-> current_time,
                 duration |-> current_time - OrElse(last_fsk_change', current_time)],
                fsk_state_history_maxlen)
         /\ current_fsk_state' = new_state
    ELSE UNCHANGED toneVars


(***************************************************************************)
(* AudioDecoder: the three decoding attempts of process_audio_chunk.  What *)
(* np.frombuffer accepts depends on the length of the buffer alone: it     *)
(* raises unless the length is a multiple of the item size.  A buffer      *)
(* audio_bytes is [len, head]: its length and its first four bytes.  The   *)
(* decoded audio is [encoding, samples, raw, div]: the number of samples   *)
(* and the first sample, which is raw / div (for float32 raw is the bit    *)
(* pattern of the float, used as it is).                                   *)
(***************************************************************************)
NoAudio == [encoding |-> "none", samples |-> 0, raw |-> 0, div |-> 0]

\* a 16-bit word read as a signed integer
Signed16(w) == IF w >= 32768 THEN w - 65536 ELSE w

\* the first item of the buffer under each dtype
FirstItem(head, encoding) ==
    IF encoding = "int16-le" THEN Signed16(head[1] + 256 * head[2])
    ELSE IF encoding = "int16-be" THEN Signed16(256 * head[1] + head[2])
    ELSE head[1] + 256 * head[2] + 65536 * head[3] + 16777216 * head[4]

\* an attempt that reads the whole items of the buffer and ignores the
\* bytes left over
TryDecode_whole_items(audio_bytes, itemsize, encoding) ==
    IF audio_bytes.len \div itemsize < 100 THEN NoAudio
    ELSE [encoding |-> encoding, samples |-> audio_bytes.len \div itemsize,
          raw |-> FirstItem(audio_bytes.head, encoding),
          div |-> IF encoding = "float32" THEN 1 ELSE 32768]

TryDecode(audio_bytes, itemsize, encoding) ==
    IF audio_bytes.len % itemsize # 0 THEN NoAudio
    ELSE IF audio_bytes.len \div itemsize < 100 THEN NoAudio
    ELSE [encoding |-> encoding, samples |-> audio_bytes.len \div itemsize,
          raw |-> FirstItem(audio_bytes.head, encoding),
          div |-> IF encoding = "float32" THEN 1 ELSE 32768]

\* the decoder with the float32 attempt made first
DecodeAudio_float_first(audio_bytes) ==
    LET m1 == TryDecode(audio_bytes, 4, "float32")
        m2 == IF m1 = NoAudio THEN TryDecode(audio_bytes, 2, "int16-le") ELSE m1
        m3 == IF m2 = NoAudio THEN TryDecode(audio_bytes, 2, "int16-be") ELSE m2
    IN  m3

DecodeAudio(audio_bytes) ==
    LET m1 == TryDecode(audio_bytes, 2, "int16-le")
        m2 == IF m1 = NoAudio THEN TryDecode(audio_bytes, 4, "float32") ELSE m1
        m3 == IF m2 = NoAudio THEN TryDecode(audio_bytes, 2, "int16-be") ELSE m2
    IN  m3

\* a buffer of nbytes bytes of 16-bit audio whose first sample is 0.5
Bytes(nbytes) == [len |-> nbytes, head |-> <<0, 64, 0, 64>>]

(***************************************************************************)
(* SpectralFrontEnd.  The spectrum of a window is an input: a magnitude    *)
(* for every bin of the target band.  Bin k of a window of window_size     *)
(* samples lies at k * sample_rate / window_size Hz (fftfreq).             *)
(***************************************************************************)
\* audio levels are in units of 0.0001; below 0.001 the pass is skipped
QuietLevel == 10

WindowSize(samples) == Min(samples, 8192)

\* the bins with 20.0 <= freqs[k] <= 34.0
TargetRange(window_size) ==
    { k \in 0..((34 * window_size) \div sample_rate) :
        k * sample_rate >= 20 * window_size }

\* freqs[k] in hundredths of a hertz, rounded to the nearest
BinFreq(k, window_size) ==
    (k * sample_rate * 100 + window_size \div 2) \div window_size

\* the peak with ties going to the last of the equal bins
PeakBin_last_tie(mags) ==
    LET significant == { k \in DOMAIN mags : mags[k] >= min_signal_strength }
    IN  IF significant = {} THEN None
        ELSE CHOOSE k \in significant :
                \A j \in significant :
                    mags[j] < mags[k] \/ (mags[j] = mags[k] /\ k >= j)

\* significant_peaks sorted by magnitude, strongest first (the sort is
\* stable), and its first entry: the bin of the peak, or None
PeakBin(mags) ==
    LET significant == { k \in DOMAIN mags : mags[k] >= min_signal_strength }
    IN  IF significant = {} THEN None
        ELSE CHOOSE k \in significant :
                \A j \in significant :
                    mags[j] < mags[k] \/ (mags[j] = mags[k] /\ k <= j)

\* a gate that lets every peak through
IsUvbFrequency_any(peak_freq) == TRUE

\* is_uvb_frequency: within twice the tolerance of a configured tone
IsUvbFrequency(peak_freq) ==
    \E i \in DOMAIN uvb76_frequencies :
        Abs(peak_freq - uvb76_frequencies[i]) <= freq_tolerance * 2

SessionTime(current_time) ==
    IF session_start_time = None \/ session_start_time = 0 THEN 0
    ELSE current_time - session_start_time

\* list.append followed by the pop(0) that keeps max_waterfall_lines entries
WaterfallAppend(lines, x) ==
    IF Len(lines) + 1 > max_waterfall_lines THEN Tail(Append(lines, x))
    ELSE Append(lines, x)

(***************************************************************************)
(* process_audio_chunk(audio_bytes): one analysis pass over the buffer     *)
(* audio_bytes, whose samples have mean level `level` and whose window has *)
(* the in-band magnitudes `mags`.                                          *)
(***************************************************************************)
\* lines 862-896 with the bit appended whatever the bit decision returns
AppendPeak_any(peak_freq, peak_mag, level, current_time) ==
    LET binary_state == frequency_to_binary_debug(peak_freq) IN
    /\ update_fsk_state(peak_freq, peak_mag, current_time + 1)
    /\ clock' = current_time + 1
    /\ frequency_buffer' = DequeAppend(frequency_buffer, peak_freq, frequency_buffer_maxlen)
    /\ time_buffer' = DequeAppend(time_buffer, current_time, frequency_buffer_maxlen)
    /\ frequency_log' =
          IF log_frequency_var
          THEN Append(frequency_log,
                  [timestamp |-> current_time,
                   session_time |-> SessionTime(current_time),
                   frequency |-> peak_freq, magnitude |-> peak_mag,
                   audio_level |-> level])
          ELSE frequency_log
    /\ call' = [frequency |-> peak_freq, bit |-> binary_state,
                label |-> fsk_label(peak_freq)]
    /\ binary_buffer' = DequeAppend(binary_buffer,
                            IF binary_state = None THEN 0 ELSE binary_state,
                            binary_buffer_maxlen)
    /\ binary_log' =
          IF log_binary_var
          THEN Append(binary_log,
                  [timestamp |-> current_time,
                   session_time |-> SessionTime(current_time),
                   binary_state |-> IF binary_state = None THEN 0 ELSE binary_state,
                   frequency |-> peak_freq,
                   bit_number |-> Len(binary_log) + 1])
          ELSE binary_log

\* lines 862-896: the state updates for a peak that passed the detection
AppendPeak(peak_freq, peak_mag, level, current_time) ==
    LET binary_state == frequency_to_binary_debug(peak_freq) IN
    /\ update_fsk_state(peak_freq, peak_mag, current_time + 1)
    /\ clock' = current_time + 1
    /\ frequency_buffer' = DequeAppend(frequency_buffer, peak_freq, frequency_buffer_maxlen)
    /\ time_buffer' = DequeAppend(time_buffer, current_time, frequency_buffer_maxlen)
    /\ frequency_log' =
          IF log_frequency_var
          THEN Append(frequency_log,
                  [timestamp |-> current_time,
                   session_time |-> SessionTime(current_time),
                   frequency |-> peak_freq, magnitude |-> peak_mag,
                   audio_level |-> level])
          ELSE frequency_log
    /\ call' = [frequency |-> peak_freq, bit |-> binary_state,
                label |-> fsk_label(peak_freq)]
    /\ IF binary_state # None
       THEN /\ binary_buffer' = DequeAppend(binary_buffer, binary_state, binary_buffer_maxlen)
            /\ binary_log' =
                  IF log_binary_var
                  THEN Append(binary_log,
                          [timestamp |-> current_time,
                           session_time |-> SessionTime(current_time),
                           binary_state |-> binary_state,
                           frequency |-> peak_freq,
                           bit_number |-> Len(binary_log) + 1])
                  ELSE binary_log
       ELSE UNCHANGED <<binary_buffer, binary_log>>

\* a decode failure that still records an audio level
DecodeFailed_level ==
    /\ audio_level_buffer' = DequeAppend(audio_level_buffer, 0, frequency_buffer_maxlen)
    /\ UNCHANGED <<toneVars, frequency_buffer, binary_buffer, time_buffer,
                   waterfall_data, waterfall_times, logVars, last_audio_time,
                   clock, call>>

\* lines 783-785: no decoding method succeeded, the pass returns
DecodeFailed ==
    UNCHANGED <<toneVars, bufVars, logVars, last_audio_time, clock, call>>

process_audio_chunk(audio_bytes, level, mags) ==
    LET audio_data == DecodeAudio(audio_bytes)
        current_time == TimeNow
        window_size == WindowSize(audio_data.samples)
        k == PeakBin(mags)
        peak_freq == IF k = None THEN None ELSE BinFreq(k, window_size)
        peak_mag == IF k = None THEN None ELSE mags[k]
        seen(f) == Append(passes, [peak |-> f, logged |-> log_binary_var,
                                   bytes |-> audio_bytes, audio |-> audio_data])
    IN
    /\ chunks_processed' = chunks_processed + 1
    /\ IF audio_data = NoAudio
       THEN /\ passes' = seen(None)
            /\ DecodeFailed
       ELSE
        /\ audio_level_buffer' = DequeAppend(audio_level_buffer, level, frequency_buffer_maxlen)
        /\ last_audio_time' = current_time
        /\ IF level < QuietLevel \/ window_size < 2048
           THEN /\ passes' = seen(None)
                /\ clock' = current_time
                /\ UNCHANGED <<toneVars, frequency_buffer, binary_buffer, time_buffer,
                               waterfall_data, waterfall_times, logVars, call>>
           ELSE
            /\ waterfall_data' = WaterfallAppend(waterfall_data, mags)
            /\ waterfall_times' = WaterfallAppend(waterfall_times, current_time)
            /\ passes' = seen(peak_freq)
            /\ IF k # None /\ IsUvbFrequency(peak_freq) /\ peak_mag >= min_signal_strength
               THEN AppendPeak(peak_freq, peak_mag, level, current_time)
               ELSE /\ clock' = current_time
                    /\ UNCHANGED <<toneVars, frequency_buffer, binary_buffer, time_buffer,
                                   binary_log, frequency_log, call>>
            /\ waterfall_log' =
                  IF log_waterfall_var /\ Len(waterfall_data') > 0
                  THEN Append(waterfall_log,
                          [timestamp |-> current_time,
                           session_time |-> SessionTime(current_time),
                           frequencies |-> [b \in DOMAIN mags |-> BinFreq(b, window_size)],
                           magnitudes |-> mags])
                  ELSE waterfall_log

(***************************************************************************)
(* PatternDecoder: analyze_patterns and decode_binary_sequence.  A Python  *)
(* string is the sequence of its characters.  A returned dictionary is a   *)
(* record that names its keys in `keys`; a slot whose key is absent is     *)
(* empty.                                                                  *)
(***************************************************************************)
Digits == <<"0", "1", "2", "3", "4", "5", "6", "7", "8", "9">>
HexDigits == <<"0", "1", "2", "3", "4", "5", "6", "7", "8", "9",
               "A", "B", "C", "D", "E", "F">>

\* chr(v) for 32 <= v <= 126 is Printable[v - 31]; the grave accent (96),
\* which a string of the module cannot hold, is written GRAVE
Printable == <<
    " ", "!", "\"", "#", "$", "%", "&", "'", "(", ")", "*", "+",
    ",", "-", ".", "/", "0", "1", "2", "3", "4", "5", "6", "7",
    "8", "9", ":", ";", "<", "=", ">", "?", "@", "A", "B", "C",
    "D", "E", "F", "G", "H", "I", "J", "K", "L", "M", "N", "O",
    "P", "Q", "R", "S", "T", "U", "V", "W", "X", "Y", "Z", "[",
    "\\", "]", "^", "_", "GRAVE", "a", "b", "c", "d", "e", "f", "g",
    "h", "i", "j", "k", "l", "m", "n", "o", "p", "q", "r", "s",
    "t", "u", "v", "w", "x", "y", "z", "{", "|", "}", "~" >>

baudot_letters == <<
    [code |-> <<"1", "1", "0", "0", "0">>, letter |-> "A"],
    [code |-> <<"1", "0", "0", "1", "1">>, letter |-> "B"],
    [code |-> <<"0", "1", "1", "1", "0">>, letter |-> "C"],
    [code |-> <<"1", "0", "0", "1", "0">>, letter |-> "D"],
    [code |-> <<"1", "0", "0", "0", "0">>, letter |-> "E"],
    [code |-> <<"1", "0", "1", "1", "0">>, letter |-> "F"],
    [code |-> <<"0", "1", "0", "1", "1">>, letter |-> "G"],
    [code |-> <<"0", "0", "1", "0", "1">>, letter |-> "H"],
    [code |-> <<"0", "1", "1", "0", "0">>, letter |-> "I"],
    [code |-> <<"1", "1", "0", "1", "0">>, letter |-> "J"],
    [code |-> <<"1", "1", "1", "1", "0">>, letter |-> "K"],
    [code |-> <<"0", "1", "0", "0", "1">>, letter |-> "L"],
    [code |-> <<"0", "0", "1", "1", "1">>, letter |-> "M"],
    [code |-> <<"0", "0", "1", "1", "0">>, letter |-> "N"],
    [code |-> <<"0", "0", "0", "1", "1">>, letter |-> "O"],
    [code |-> <<"0", "1", "1", "0", "1">>, letter |-> "P"],
    [code |-> <<"1", "1", "1", "0", "1">>, letter |-> "Q"],
    [code |-> <<"0", "1", "0", "1", "0">>, letter |-> "R"],
    [code |-> <<"1", "0", "1", "0", "0">>, letter |-> "S"],
    [code |-> <<"0", "0", "0", "0", "1">>, letter |-> "T"],
    [code |-> <<"1", "1", "1", "0", "0">>, letter |-> "U"],
    [code |-> <<"0", "1", "1", "1", "1">>, letter |-> "V"],
    [code |-> <<"1", "1", "0", "0", "1">>, letter |-> "W"],
    [code |-> <<"1", "0", "1", "1", "1">>, letter |-> "X"],
    [code |-> <<"1", "0", "1", "0", "1">>, letter |-> "Y"],
    [code |-> <<"1", "0", "0", "0", "1">>, letter |-> "Z"] >>

sync_patterns == <<
    [pattern |-> <<"1", "0", "1", "0", "1", "0", "1", "0">>, name |-> "SYNC_AA"],
    [pattern |-> <<"0", "1", "0", "1", "0", "1", "0", "1">>, name |-> "SYNC_55"],
    [pattern |-> <<"1", "1", "1", "1", "0", "0", "0", "0">>, name |-> "SYNC_F0"],
    [pattern |-> <<"0", "0", "0", "0", "1", "1", "1", "1">>, name |-> "SYNC_0F"],
    [pattern |-> <<"1", "1", "1", "1", "1", "1", "1", "1">>, name |-> "ALL_ONES"],
    [pattern |-> <<"0", "0", "0", "0", "0", "0", "0", "0">>, name |-> "ALL_ZEROS"] >>

\* ''.join(map(str, bits))
BitString(bits) == [i \in 1..Len(bits) |-> Digits[bits[i] + 1]]

\* the digits read with the least significant one first
RECURSIVE IntBase2_lsb(_)
IntBase2_lsb(text) ==
    IF text = <<>> THEN 0
    ELSE (IF text[1] = "1" THEN 1 ELSE 0) + 2 * IntBase2_lsb(Tail(text))

\* int(text, 2)
RECURSIVE IntBase2(_)
IntBase2(text) ==
    IF text = <<>> THEN 0
    ELSE 2 * IntBase2(SubSeq(text, 1, Len(text) - 1))
         + (IF text[Len(text)] = "1" THEN 1 ELSE 0)

\* str(v) for v >= 0
RECURSIVE Str(_)
Str(v) == IF v < 10 THEN <<Digits[v + 1]>>
          ELSE Str(v \div 10) \o <<Digits[(v % 10) + 1]>>

\* f"{v:02X}"
Hex02(v) == IF v < 16 THEN <<"0", HexDigits[v + 1]>>
            ELSE <<HexDigits[(v \div 16) + 1], HexDigits[(v % 16) + 1]>>

\* text[:n]
Prefix(text, n) == SubSeq(text, 1, Min(Len(text), n))

\* ''.join(parts) and sep.join(parts)
RECURSIVE Concat(_)
Concat(parts) == IF parts = <<>> THEN <<>> ELSE Head(parts) \o Concat(Tail(parts))

RECURSIVE Join(_, _)
Join(parts, sep) ==
    IF parts = <<>> THEN <<>>
    ELSE IF Len(parts) = 1 THEN parts[1]
    ELSE parts[1] \o sep \o Join(Tail(parts), sep)

\* [text[i:i+n] for i in range(0, len(text) - (n - 1), n)]
Groups(text, n) ==
    LET starts == { i \in 0..(Len(text) - n) : i % n = 0 }
    IN  [g \in 1..Cardinality(starts) |-> SubSeq(text, (g - 1) * n + 1, g * n)]

\* text.count(pattern): the occurrences that do not overlap, from the left.
\* hits are the positions where the pattern occurs; the search takes the
\* first hit at or after `from` and goes on behind that occurrence.
RECURSIVE CountFrom(_, _, _)
CountFrom(hits, length, from) ==
    LET rest == { i \in hits : i >= from }
    IN  IF rest = {} THEN 0
        ELSE 1 + CountFrom(hits, length,
                           (CHOOSE i \in rest : \A j \in rest : i <= j) + length)

Count(text, pattern) ==
    CountFrom({ i \in 1..(Len(text) - Len(pattern) + 1) :
                  SubSeq(text, i, i + Len(pattern) - 1) = pattern },
              Len(pattern), 1)

\* text.count(c) for a single character c
CountChar(text, c) == Cardinality({ i \in 1..Len(text) : text[i] = c })

\* the slots of decode_binary_sequence's dictionary
NoResults == [keys |-> {}, error |-> "", ascii_8bit |-> <<>>, nibbles_4bit |-> <<>>,
              bytes_decimal |-> <<>>, hex_bytes |-> <<>>, baudot_5bit |-> <<>>,
              bcd_decimal |-> <<>>, sync_patterns |-> <<>>, statistics |-> <<>>]

\* Method 1, lines 1108-1123
ascii_8bit(bit_string) ==
    LET bytes == Groups(bit_string, 8)
        one(byte) == LET decimal_value == IntBase2(byte)
                     IN  IF 32 <= decimal_value /\ decimal_value <= 126
                         THEN <<Printable[decimal_value - 31]>>
                         ELSE <<"[">> \o Str(decimal_value) \o <<"]">>
    IN  Prefix(Concat([g \in 1..Len(bytes) |-> one(bytes[g])]), 50)

\* Method 2, lines 1125-1136
nibbles_4bit(bit_string) ==
    LET nibbles == Groups(bit_string, 4)
    IN  Join(Prefix([g \in 1..Len(nibbles) |-> Str(IntBase2(nibbles[g]))], 20), <<" ">>)

\* Method 3, lines 1138-1149
bytes_decimal(bit_string) ==
    LET bytes == Groups(bit_string, 8)
    IN  Join(Prefix([g \in 1..Len(bytes) |-> Str(IntBase2(bytes[g]))], 15), <<" ">>)

\* Method 4, lines 1151-1162
hex_bytes(bit_string) ==
    LET bytes == Groups(bit_string, 8)
    IN  Prefix(Concat([g \in 1..Len(bytes) |-> Hex02(IntBase2(bytes[g])) \o <<" ">>]), 60)

\* Method 5, lines 1164-1187
baudot_5bit(bit_string) ==
    LET codes == Groups(bit_string, 5)
        one(code) ==
            IF \E e \in 1..Len(baudot_letters) : baudot_letters[e].code = code
            THEN baudot_letters[CHOOSE e \in 1..Len(baudot_letters) :
                                    baudot_letters[e].code = code].letter
            ELSE "?"
    IN  Prefix([g \in 1..Len(codes) |-> one(codes[g])], 30)

\* Method 6, lines 1189-1204
bcd_decimal(bit_string) ==
    LET nibbles == Groups(bit_string, 4)
        one(nibble) == IF IntBase2(nibble) <= 9 THEN Digits[IntBase2(nibble) + 1] ELSE "X"
    IN  Prefix([g \in 1..Len(nibbles) |-> one(nibbles[g])], 40)

\* Method 7, lines 1206-1227: the patterns found, with their counts
found_syncs(bit_string) ==
    LET counted == [e \in 1..Len(sync_patterns) |->
                       [name |-> sync_patterns[e].name,
                        count |-> Count(bit_string, sync_patterns[e].pattern)]]
        found == SelectSeq(counted, LAMBDA c : c.count > 0)
    IN  IF found = <<>> THEN <<"None detected">> ELSE found

\* Method 8, lines 1229-1247: the counts (the percentages and the entropy
\* are formatted from them)
statistics(bit_string) ==
    <<[ones |-> CountChar(bit_string, "1"), zeros |-> CountChar(bit_string, "0")]>>

AllKeys == {"ascii_8bit", "nibbles_4bit", "bytes_decimal", "hex_bytes",
            "baudot_5bit", "bcd_decimal", "sync_patterns", "statistics"}

\* the codecs run on an input of any length
decode_binary_sequence_any(bits) ==
    LET bit_string == BitString(bits)
        results == [NoResults EXCEPT
            !.ascii_8bit = ascii_8bit(bit_string),
            !.nibbles_4bit = nibbles_4bit(bit_string),
            !.bytes_decimal = bytes_decimal(bit_string),
            !.hex_bytes = hex_bytes(bit_string),
            !.baudot_5bit = baudot_5bit(bit_string),
            !.bcd_decimal = bcd_decimal(bit_string),
            !.sync_patterns = found_syncs(bit_string),
            !.statistics = statistics(bit_string)]
    IN  [results EXCEPT !.keys = { k \in AllKeys : results[k] # <<>> }]

\* decode_binary_sequence(bits), lines 1100-1249
decode_binary_sequence(bits) ==
    IF Len(bits) < 8
    THEN [NoResults EXCEPT !.keys = {"error"},
                           !.error = "Need at least 8 bits for decoding"]
    ELSE decode_binary_sequence_any(bits)

\* lines 1084-1090: the entries the scan appends for one window length
ScanLength(bit_string, length) ==
    IF Len(bit_string) - length <= 0 THEN <<>>
    ELSE LET seen == [i \in 1..(Len(bit_string) - length) |->
                        LET pattern == SubSeq(bit_string, i, i + length - 1)
                        IN  [pattern |-> pattern, count |-> Count(bit_string, pattern)]]
         IN  SelectSeq(seen, LAMBDA e : e.count > 2 /\ Len(e.pattern) >= 4)

\* analyze_patterns(bits), lines 1076-1098: the string "Insufficient data",
\* or the dictionary of the patterns and of the decoded results
analyze_patterns(bits) ==
    IF Len(bits) < 8
    THEN [type |-> "str", text |-> "Insufficient data", patterns |-> <<>>,
          decoded |-> NoResults]
    ELSE LET bit_string == BitString(bits)
             patterns == ScanLength(bit_string, 4) \o ScanLength(bit_string, 8)
                            \o ScanLength(bit_string, 16)
         IN  [type |-> "dict", text |-> "",
              patterns |-> IF patterns # <<>> THEN Prefix(patterns, 5)
                           ELSE <<"No clear patterns">>,
              decoded |-> decode_binary_sequence(bits)]

(***************************************************************************)
(* The Monolit heuristic: detect_monolit_coding                            *)
(***************************************************************************)
UpperLetters == <<"A", "B", "C", "D", "E", "F", "G", "H", "I", "J", "K", "L", "M",
                  "N", "O", "P", "Q", "R", "S", "T", "U", "V", "W", "X", "Y", "Z">>
LowerLetters == <<"a", "b", "c", "d", "e", "f", "g", "h", "i", "j", "k", "l", "m",
                  "n", "o", "p", "q", "r", "s", "t", "u", "v", "w", "x", "y", "z">>

IsDigit(c) == \E i \in 1..10 : Digits[i] = c
IsUpper(c) == \E i \in 1..26 : UpperLetters[i] = c
IsLower(c) == \E i \in 1..26 : LowerLetters[i] = c

\* c.isalnum() for one character of the printable ASCII range
IsAlnum(c) == IsDigit(c) \/ IsUpper(c) \/ IsLower(c)

\* \w of the regular expressions, on the printable ASCII range
IsWordChar(c) == IsAlnum(c) \/ c = "_"

\* text.isalnum(): not empty and alphanumeric throughout
isalnum(text) == text # <<>> /\ \A i \in 1..Len(text) : IsAlnum(text[i])

\* text.upper()
upper(text) ==
    [i \in 1..Len(text) |->
        IF IsLower(text[i])
        THEN UpperLetters[CHOOSE k \in 1..26 : LowerLetters[k] = text[i]]
        ELSE text[i]]

\* lines 1265-1273: the bytes as characters, a dot for what is not printable
ascii_chars(bit_string) ==
    LET bytes == Groups(bit_string, 8)
    IN  [g \in 1..Len(bytes) |->
            LET val == IntBase2(bytes[g])
            IN  IF 32 <= val /\ val <= 126 THEN Printable[val - 31] ELSE "."]

\* lines 1287-1295: the digits among the bytes, a space for everything else
decimal_sequence(bit_string) ==
    LET bytes == Groups(bit_string, 8)
    IN  [g \in 1..Len(bytes) |->
            LET val == IntBase2(bytes[g])
            IN  IF 48 <= val /\ val <= 57 THEN Printable[val - 31] ELSE " "]

\* lines 1277-1281 for one length: i runs over range(len(text) - length * 2)
CallsignScan(text, length) ==
    LET last == Len(text) - length * 2
        at == [i \in 1..(IF last > 0 THEN last ELSE 0) |->
                  [pattern |-> SubSeq(text, i, i + length - 1),
                   next_pattern |-> SubSeq(text, i + length, i + length * 2 - 1)]]
        hit == SelectSeq(at, LAMBDA e : e.pattern = e.next_pattern /\ isalnum(e.pattern))
    IN  [k \in 1..Len(hit) |-> hit[k].pattern]

\* \b between the characters k and k + 1 of the text
WordBoundary(text, k) ==
    LET before == k >= 1 /\ k <= Len(text) /\ IsWordChar(text[k])
        after == k + 1 >= 1 /\ k + 1 <= Len(text) /\ IsWordChar(text[k + 1])
    IN  before # after

\* re.findall(r'\b<class>{lo,hi}\b', text) for a class of word characters:
\* a match begins and ends at a word boundary, so no two matches overlap
FindWords(text, class, lo, hi) ==
    LET Fits(i, n) ==
            /\ i + n - 1 <= Len(text)
            /\ \A k \in i..(i + n - 1) : text[k] \in class
            /\ WordBoundary(text, i + n - 1)
        at == [i \in 1..Len(text) |->
                  [i |-> i,
                   n |-> IF WordBoundary(text, i - 1) /\ \E n \in lo..hi : Fits(i, n)
                         THEN CHOOSE n \in lo..hi :
                                 Fits(i, n) /\ \A m \in lo..hi : Fits(i, m) => m <= n
                         ELSE 0]]
        hit == SelectSeq(at, LAMBDA e : e.n > 0)
    IN  [k \in 1..Len(hit) |-> SubSeq(text, hit[k].i, hit[k].i + hit[k].n - 1)]

\* lines 1324-1328
MonolitScore(callsigns, fives, eights, words) ==
    (IF callsigns # <<>> THEN 30 ELSE 0) + (IF fives # <<>> THEN 25 ELSE 0)
    + (IF eights # <<>> THEN 25 ELSE 0) + (IF words # <<>> THEN 20 ELSE 0)

\* lines 1330-1337
MonolitLikelihood(score) ==
    IF score >= 70 THEN "HIGH - Strong Monolit characteristics"
    ELSE IF score >= 40 THEN "MEDIUM - Some Monolit patterns"
    ELSE IF score >= 20 THEN "LOW - Few Monolit indicators"
    ELSE "NONE - No clear Monolit patterns"

\* the slots of detect_monolit_coding's dictionary.  An empty list stands
\* for the entry "None detected"; ascii and score are the local variables
\* ascii_chars and score; timing_analysis tells whether the entry is
\* present, not its text.
NoMonolit == [keys |-> {}, error |-> "", ascii |-> <<>>,
              callsign_candidates |-> <<>>, five_digit_groups |-> <<>>,
              eight_digit_blocks |-> <<>>, code_word_candidates |-> <<>>,
              structure_analysis |-> <<>>, score |-> 0, monolit_likelihood |-> "",
              timing_analysis |-> FALSE]

\* detect_monolit_coding(bits), lines 1251-1360, with self.binary_log as log
detect_monolit_coding(bits, log) ==
    IF Len(bits) < 64
    THEN [NoMonolit EXCEPT !.keys = {"error"},
                           !.error = "Insufficient data for Monolit analysis"]
    ELSE LET bit_string == BitString(bits)
             text == ascii_chars(bit_string)
             callsign_patterns == CallsignScan(text, 3) \o CallsignScan(text, 4)
                                     \o CallsignScan(text, 5)
             digits == decimal_sequence(bit_string)
             five_digit_groups == FindWords(digits, { Digits[d] : d \in 1..10 }, 5, 5)
             eight_digit_groups == FindWords(digits, { Digits[d] : d \in 1..10 }, 8, 8)
             code_word_candidates == FindWords(upper(text), { UpperLetters[d] : d \in 1..26 }, 4, 6)
             score == MonolitScore(callsign_patterns, five_digit_groups,
                                   eight_digit_groups, code_word_candidates)
             structure ==
                 (IF callsign_patterns # <<>>
                  THEN <<[line |-> "callsign", n |-> 1]>> ELSE <<>>)
                 \o (IF five_digit_groups # <<>>
                     THEN <<[line |-> "five-digit", n |-> Len(five_digit_groups)]>>
                     ELSE <<>>)
                 \o (IF eight_digit_groups # <<>>
                     THEN <<[line |-> "eight-digit", n |-> Len(eight_digit_groups)]>>
                     ELSE <<>>)
                 \o (IF code_word_candidates # <<>>
                     THEN <<[line |-> "code word", n |-> Len(code_word_candidates)]>>
                     ELSE <<>>)
         IN  [keys |-> {"callsign_candidates", "five_digit_groups", "eight_digit_blocks",
                        "code_word_candidates", "monolit_likelihood",
                        "structure_analysis"}
                       \cup (IF Len(log) > 10 THEN {"timing_analysis"} ELSE {}),
              error |-> "",
              ascii |-> text,
              callsign_candidates |-> Prefix(callsign_patterns, 5),
              five_digit_groups |-> Prefix(five_digit_groups, 10),
              eight_digit_blocks |-> Prefix(eight_digit_groups, 5),
              code_word_candidates |-> Prefix(code_word_candidates, 5),
              structure_analysis |-> structure,
              score |-> score,
              monolit_likelihood |-> MonolitLikelihood(score),
              timing_analysis |-> Len(log) > 10]

\* no report has been computed
NoReport == [bits |-> <<>>,
             analysis |-> [type |-> "none", text |-> "", patterns |-> <<>>,
                           decoded |-> NoResults],
             decoded |-> NoResults,
             monolit |-> NoMonolit]

(***************************************************************************)
(* Initial state: the object after __init__ and create_gui                 *)
(***************************************************************************)
\* a thread that has not been created
NoProducer == [pc |-> "none", enq |-> 0]
NoConsumer == [pc |-> "none", buf |-> 0, taken |-> <<>>]

\* no pass in progress: pc is the line the pass is at, current_time its
\* local, before the buffers, logs and FSK state the pass found when it
\* began, faulted whether the last pass raised, and faults the exceptions
\* the passes have raised so far
NoFrame == [pc |-> "idle", current_time |-> 0, before |-> <<>>,
            faulted |-> FALSE, faults |-> 0]

\* the display has not been refreshed yet
NoView == [times_match |-> TRUE, rows_bounded |-> TRUE]

Constructed ==
    /\ is_streaming = FALSE
    /\ status_var = "Ready"
    /\ audio_queue = <<>>
    /\ frequency_buffer = <<>>
    /\ binary_buffer = <<>>
    /\ time_buffer = <<>>
    /\ audio_level_buffer = <<>>
    /\ waterfall_data = <<>>
    /\ waterfall_times = <<>>
    /\ binary_log = <<>>
    /\ frequency_log = <<>>
    /\ waterfall_log = <<>>
    /\ log_frequency_var = TRUE
    /\ log_waterfall_var = FALSE
    /\ session_start_time = None
    /\ bytes_received = 0
    /\ chunks_processed = 0
    /\ last_audio_time = 0
    /\ current_fsk_state = NoState
    /\ last_fsk_change = None
    /\ fsk_state_history = <<>>
    /\ clock = 0
    /\ call = [frequency |-> None, bit |-> None, label |-> NoState]
    /\ passes = <<>>
    /\ session = 0
    /\ stream_thread = [s \in 1..MaxSessions |-> NoProducer]
    /\ analysis_thread = [s \in 1..MaxSessions |-> NoConsumer]
    /\ frame = NoFrame
    /\ view = NoView
    /\ report = NoReport

Init ==
    /\ Constructed
    /\ log_binary_var = TRUE
    /\ source = <<>>

(***************************************************************************)
(* The classifier on its own: update_fsk_state and the bit decision are    *)
(* applied to a frequency as process_audio_chunk applies them (lines 865   *)
(* and 882), for every frequency of ToneFreqs.                             *)
(***************************************************************************)
Classify(frequency, magnitude) ==
    /\ clock < MaxToneCalls
    /\ clock' = TimeNow
    /\ update_fsk_state(frequency, magnitude, clock')
    /\ call' = [frequency |-> frequency,
                bit |-> frequency_to_binary_debug(frequency),
                label |-> fsk_label(frequency)]
    /\ UNCHANGED <<bufVars, logVars, optVars, countVars, sessVars, threadVars,
                   passes, source, stepVars, report>>

NextTone == \E f \in ToneFreqs, m \in ToneMags : Classify(f, m)

SpecTone == Init /\ [][NextTone]_vars

(***************************************************************************)
(* The analysis passes of one session, one after the other: each pass gets *)
(* a buffer as analyze_audio hands it over (at least 4 * chunk_size bytes, *)
(* of even or odd length).  The user sets the frequency and waterfall      *)
(* logging options before the first pass and may switch binary logging at  *)
(* any time.                                                               *)
(***************************************************************************)
PassBytes == {4 * chunk_size, 4 * chunk_size + 1}
PassLevels == {5, 500}
PassMags == {10, 20}
PassSpectra == [TargetRange(WindowSize((4 * chunk_size) \div 2)) -> PassMags]

Pass(nbytes, level, mags) ==
    /\ chunks_processed < MaxPasses
    /\ process_audio_chunk(Bytes(nbytes), level, mags)
    /\ UNCHANGED <<optVars, bytes_received, sessVars, threadVars, source, stepVars, report>>

\* the three logging check boxes of the export tab
SetLogBinary ==
    /\ log_binary_var' = ~log_binary_var
    /\ UNCHANGED <<toneVars, bufVars, logVars, log_frequency_var, log_waterfall_var,
                   countVars, sessVars, threadVars, clock, call, passes, source, stepVars, report>>

SetLogFrequency ==
    /\ chunks_processed = 0
    /\ log_frequency_var' = ~log_frequency_var
    /\ UNCHANGED <<toneVars, bufVars, logVars, log_binary_var, log_waterfall_var,
                   countVars, sessVars, threadVars, clock, call, passes, source, stepVars, report>>

SetLogWaterfall ==
    /\ chunks_processed = 0
    /\ log_waterfall_var' = ~log_waterfall_var
    /\ UNCHANGED <<toneVars, bufVars, logVars, log_binary_var, log_frequency_var,
                   countVars, sessVars, threadVars, clock, call, passes, source, stepVars, report>>

NextPass ==
    \/ \E n \in PassBytes, l \in PassLevels, m \in PassSpectra : Pass(n, l, m)
    \/ SetLogBinary
    \/ SetLogFrequency
    \/ SetLogWaterfall

SpecPass == Init /\ [][NextPass]_vars

(***************************************************************************)
(* A long synthetic stream: every pass sees one strong tone, and the tones *)
(* repeat the pattern `source`.  Binary logging is on or off for the whole *)
(* stream.                                                                 *)
(***************************************************************************)
RingSources == { <<4, 5>>, <<4, 4, 5>>, <<5, 6, 4>> }

\* the spectrum of a window that holds one strong tone, in bin k
OneTone(k) == [b \in TargetRange(WindowSize((4 * chunk_size) \div 2)) |->
                  IF b = k THEN 20 ELSE 10]

InitRing ==
    /\ Constructed
    /\ log_binary_var \in BOOLEAN
    /\ source \in RingSources

RingPass ==
    /\ chunks_processed < MaxRingPasses
    /\ process_audio_chunk(Bytes(4 * chunk_size), 500,
                           OneTone(source[(chunks_processed % Len(source)) + 1]))
    /\ UNCHANGED <<optVars, bytes_received, sessVars, threadVars, source, stepVars, report>>

NextRing == RingPass

SpecRing == InitRing /\ [][NextRing]_vars

(***************************************************************************)
(* The decoder on its own: passes over buffers of every kind of length     *)
(* (too short, odd, even, a multiple of four) and of different contents.   *)
(***************************************************************************)
MaxDecodePasses == 2

DecodeLens == {0, 198, 199, 200, 201, 202, 396, 398, 400, 401, 402, 404,
               4 * chunk_size, 4 * chunk_size + 1, 4 * chunk_size + 2,
               4 * chunk_size + 3, 4 * chunk_size + 4}
DecodeHeads == { <<0, 64, 0, 64>>, <<1, 0, 0, 128>>, <<255, 127, 52, 18>>,
                 <<0, 128, 128, 63>> }
DecodeBuffers == [len : DecodeLens, head : DecodeHeads]

DecodePass(audio_bytes) ==
    /\ chunks_processed < MaxDecodePasses
    /\ process_audio_chunk(audio_bytes, 500, OneTone(4))
    /\ UNCHANGED <<optVars, bytes_received, sessVars, threadVars, source, stepVars, report>>

NextDecode == \E b \in DecodeBuffers : DecodePass(b)

SpecDecode == Init /\ [][NextDecode]_vars

(***************************************************************************)
(* The peak selection on its own: passes over loud audio whose in-band     *)
(* bins have every combination of magnitudes below, at and above the       *)
(* threshold.                                                              *)
(***************************************************************************)
MaxPeakPasses == 2

PeakMags == {10, 15, 20, 30}
PeakSpectra == [TargetRange(WindowSize((4 * chunk_size) \div 2)) -> PeakMags]

PeakPass(mags) ==
    /\ chunks_processed < MaxPeakPasses
    /\ process_audio_chunk(Bytes(4 * chunk_size), 500, mags)
    /\ UNCHANGED <<optVars, bytes_received, sessVars, threadVars, source, stepVars, report>>

NextPeak == \E m \in PeakSpectra : PeakPass(m)

SpecPeak == Init /\ [][NextPeak]_vars

(***************************************************************************)
(* The gate on its own: passes over buffers of 3000, 5000, 6000 and 8192   *)
(* samples.  The in-band bins of a window of 8192 samples are the three    *)
(* tones; the shorter windows have in-band bins at 29.40 Hz (3000 and 6000 *)
(* samples: off every tone), 26.46 Hz (5000: within the tight band of tone *)
(* 1) and 22.05 Hz (6000: within the wide band of tone 0 only).            *)
(***************************************************************************)
MaxGatePasses == 3

GateLens == {6000, 10000, 12000, 4 * chunk_size}
GateMags == {10, 20}
GateSpectra(nbytes) == [TargetRange(WindowSize(nbytes \div 2)) -> GateMags]

GatePass(nbytes, mags) ==
    /\ chunks_processed < MaxGatePasses
    /\ process_audio_chunk(Bytes(nbytes), 500, mags)
    /\ UNCHANGED <<optVars, bytes_received, sessVars, threadVars, source, stepVars, report>>

NextGate == \E n \in GateLens : \E m \in GateSpectra(n) : GatePass(n, m)

SpecGate == Init /\ [][NextGate]_vars

(***************************************************************************)
(* The pattern decoder on its own: one call of analyze_patterns and of     *)
(* decode_binary_sequence on every bit sequence of up to MaxBits bits and  *)
(* on longer sequences that repeat a pattern, up to 21 bytes: more than    *)
(* any of the codecs keeps.                                                *)
(***************************************************************************)
MaxBits == 8

ShortBits == UNION { [1..n -> {0, 1}] : n \in 0..MaxBits }

RepeatBits(pattern, n) == [i \in 1..n |-> pattern[((i - 1) % Len(pattern)) + 1]]

LongPatterns == { <<0, 1, 0, 0, 0, 0, 0, 1>>, <<1, 1, 1, 1, 1, 1, 1, 1>>,
                  <<0, 1, 1, 0, 1>> }
LongLens == {9, 12, 15, 16, 20, 84, 88, 128, 168}

PatternInputs == ShortBits \cup { RepeatBits(p, n) : p \in LongPatterns, n \in LongLens }

Analyze(bits) ==
    /\ report = NoReport
    /\ report' = [bits |-> bits,
                  analysis |-> analyze_patterns(bits),
                  decoded |-> decode_binary_sequence(bits),
                  monolit |-> NoMonolit]
    /\ UNCHANGED <<toneVars, bufVars, logVars, optVars, countVars, sessVars,
                   threadVars, clock, call, passes, source, frame, view>>

NextPattern == \E bits \in PatternInputs : Analyze(bits)

SpecPattern == Init /\ [][NextPattern]_vars

(***************************************************************************)
(* The Monolit heuristic on its own: one call of detect_monolit_coding on  *)
(* the bits of every text of MonolitLen bytes over MonolitBytes (a capital *)
(* letter, a digit and a byte that is not printable), on longer texts that *)
(* repeat a group of 3 to 5 bytes, small letters among them, with and      *)
(* without an incomplete trailing byte, and on streams below 64 bits.      *)
(***************************************************************************)
MonolitLen == 8

MonolitBytes == {65, 49, 0}

GroupBytes == MonolitBytes \cup {97}

\* the 8 bits of a byte, most significant first
ByteBits(v) == [k \in 1..8 |-> (v \div (2 ^ (8 - k))) % 2]

MonolitByteBits == [v \in GroupBytes |-> ByteBits(v)]

TextBits(values) == [i \in 1..(8 * Len(values)) |->
                        MonolitByteBits[values[((i - 1) \div 8) + 1]][((i - 1) % 8) + 1]]

RepeatedGroups == UNION { [1..k -> GroupBytes] : k \in 3..5 }

MonolitInputs ==
    { TextBits(t) : t \in [1..MonolitLen -> MonolitBytes] }
    \cup { TextBits(RepeatBits(g, n)) \o tail :
              g \in RepeatedGroups, n \in {9, 11, 12}, tail \in {<<>>, <<0, 1, 0>>} }
    \cup { RepeatBits(<<0, 1, 0, 0, 0, 0, 0, 1>>, n) : n \in {0, 8, 16, 56, 63} }

Detect(bits) ==
    /\ report' = [bits |-> bits,
                  analysis |-> NoReport.analysis,
                  decoded |-> NoResults,
                  monolit |-> detect_monolit_coding(bits, binary_log)]
    /\ UNCHANGED <<toneVars, bufVars, logVars, optVars, countVars, sessVars,
                   threadVars, clock, call, passes, source, frame, view>>

NextMonolit == report = NoReport /\ \E bits \in MonolitInputs : Detect(bits)

SpecMonolit == Init /\ [][NextMonolit]_vars

(***************************************************************************)
(* One pass statement by statement.  The consumer thread runs              *)
(* process_audio_chunk while the GUI thread refreshes the display every    *)
(* 200 ms (start_plot_updates); nothing orders the statements of the two   *)
(* threads, so a refresh can run between any two statements of a pass.     *)
(* frame.pc is the line the pass is at.  The stream is the synthetic one   *)
(* of SpecRing; a statement of one of the first passes may raise, which    *)
(* takes the pass to its except clause (lines 907-910).                    *)
(***************************************************************************)
MaxStepPasses == 102
MaxFaults == 1

StepSources == { <<4, 5, 6>> }
StepLevel == 500
StepBytes == Bytes(4 * chunk_size)

\* the spectrum of the n-th pass and its peak
StepMags(n) == OneTone(source[((n - 1) % Len(source)) + 1])
StepWindow == WindowSize(DecodeAudio(StepBytes).samples)
StepPeakFreq(n) ==
    LET k == PeakBin(StepMags(n))
    IN  IF k = None THEN None ELSE BinFreq(k, StepWindow)
StepPeakMag(n) ==
    LET k == PeakBin(StepMags(n))
    IN  IF k = None THEN None ELSE StepMags(n)[k]

Goto(line) == frame' = [frame EXCEPT !.pc = line]

\* lines 833-861: where the pass goes once the waterfall is stored
AfterWaterfall ==
    IF /\ StepPeakFreq(chunks_processed) # None
       /\ IsUvbFrequency(StepPeakFreq(chunks_processed))
       /\ StepPeakMag(chunks_processed) >= min_signal_strength
    THEN "L865" ELSE "L899"

StepRest == <<optVars, bytes_received, sessVars, threadVars, source, view, report>>

\* lines 750-785: the counter and the decoding
PassBegin ==
    /\ frame.pc = "idle"
    /\ chunks_processed < MaxStepPasses
    /\ chunks_processed' = chunks_processed + 1
    /\ passes' = Append(passes, [peak |-> StepPeakFreq(chunks_processed'),
                                 logged |-> log_binary_var,
                                 bytes |-> StepBytes,
                                 audio |-> DecodeAudio(StepBytes)])
    /\ frame' = [frame EXCEPT
            !.pc = IF DecodeAudio(StepBytes) = NoAudio THEN "idle" ELSE "L788",
            !.before = <<toneVars, bufVars, logVars>>,
            !.faulted = FALSE]
    /\ UNCHANGED <<toneVars, bufVars, logVars, last_audio_time, clock, call, StepRest>>

\* lines 788-803: the audio level, and the two early returns
PassLevel ==
    /\ frame.pc = "L788"
    /\ clock' = TimeNow
    /\ audio_level_buffer' = DequeAppend(audio_level_buffer, StepLevel, frequency_buffer_maxlen)
    /\ last_audio_time' = clock'
    /\ frame' = [frame EXCEPT
            !.current_time = clock',
            !.pc = IF StepLevel < QuietLevel \/ StepWindow < 2048 THEN "idle" ELSE "L818"]
    /\ UNCHANGED <<toneVars, frequency_buffer, binary_buffer, time_buffer,
                   waterfall_data, waterfall_times, logVars, chunks_processed,
                   call, passes, StepRest>>

\* line 818: self.waterfall_data.append(waterfall_magnitude)
WaterfallData ==
    /\ frame.pc = "L818"
    /\ waterfall_data' = Append(waterfall_data, StepMags(chunks_processed))
    /\ Goto("L819")
    /\ UNCHANGED <<toneVars, frequency_buffer, binary_buffer, time_buffer,
                   audio_level_buffer, waterfall_times, logVars, countVars,
                   clock, call, passes, StepRest>>

\* line 819: self.waterfall_times.append(current_time)
WaterfallTimes ==
    /\ frame.pc = "L819"
    /\ waterfall_times' = Append(waterfall_times, frame.current_time)
    /\ Goto("L822")
    /\ UNCHANGED <<toneVars, frequency_buffer, binary_buffer, time_buffer,
                   audio_level_buffer, waterfall_data, logVars, countVars,
                   clock, call, passes, StepRest>>

\* lines 822-823: if len(self.waterfall_data) > self.max_waterfall_lines:
\*                    self.waterfall_data.pop(0)
WaterfallEvict ==
    /\ frame.pc = "L822"
    /\ IF Len(waterfall_data) > max_waterfall_lines
       THEN /\ waterfall_data' = Tail(waterfall_data)
            /\ Goto("L824")
       ELSE /\ UNCHANGED waterfall_data
            /\ Goto(AfterWaterfall)
    /\ UNCHANGED <<toneVars, frequency_buffer, binary_buffer, time_buffer,
                   audio_level_buffer, waterfall_times, logVars, countVars,
                   clock, call, passes, StepRest>>

\* line 824: self.waterfall_times.pop(0)
WaterfallEvictTimes ==
    /\ frame.pc = "L824"
    /\ waterfall_times' = Tail(waterfall_times)
    /\ Goto(AfterWaterfall)
    /\ UNCHANGED <<toneVars, frequency_buffer, binary_buffer, time_buffer,
                   audio_level_buffer, waterfall_data, logVars, countVars,
                   clock, call, passes, StepRest>>

\* line 865: self.update_fsk_state(peak_freq, peak_mag)
FskState ==
    /\ frame.pc = "L865"
    /\ clock' = TimeNow
    /\ update_fsk_state(StepPeakFreq(chunks_processed), StepPeakMag(chunks_processed), clock')
    /\ Goto("L868")
    /\ UNCHANGED <<bufVars, logVars, countVars, call, passes, StepRest>>

\* line 868: self.frequency_buffer.append(peak_freq)
FrequencyAppend ==
    /\ frame.pc = "L868"
    /\ frequency_buffer' = DequeAppend(frequency_buffer, StepPeakFreq(chunks_processed),
                                       frequency_buffer_maxlen)
    /\ Goto("L869")
    /\ UNCHANGED <<toneVars, binary_buffer, time_buffer, audio_level_buffer,
                   waterfall_data, waterfall_times, logVars, countVars,
                   clock, call, passes, StepRest>>

\* line 869: self.time_buffer.append(current_time)
TimeAppend ==
    /\ frame.pc = "L869"
    /\ time_buffer' = DequeAppend(time_buffer, frame.current_time, frequency_buffer_maxlen)
    /\ Goto("L872")
    /\ UNCHANGED <<toneVars, frequency_buffer, binary_buffer, audio_level_buffer,
                   waterfall_data, waterfall_times, logVars, countVars,
                   clock, call, passes, StepRest>>

\* lines 872-883: the frequency log, and the bit decision
FrequencyLog ==
    /\ frame.pc = "L872"
    /\ frequency_log' =
          IF log_frequency_var
          THEN Append(frequency_log,
                  [timestamp |-> frame.current_time,
                   session_time |-> SessionTime(frame.current_time),
                   frequency |-> StepPeakFreq(chunks_processed),
                   magnitude |-> StepPeakMag(chunks_processed),
                   audio_level |-> StepLevel])
          ELSE frequency_log
    /\ call' = [frequency |-> StepPeakFreq(chunks_processed),
                bit |-> frequency_to_binary_debug(StepPeakFreq(chunks_processed)),
                label |-> fsk_label(StepPeakFreq(chunks_processed))]
    /\ Goto(IF call'.bit # None THEN "L884" ELSE "L899")
    /\ UNCHANGED <<toneVars, bufVars, binary_log, waterfall_log, countVars,
                   clock, passes, StepRest>>

\* line 884: self.binary_buffer.append(binary_state)
BinaryAppend ==
    /\ frame.pc = "L884"
    /\ binary_buffer' = DequeAppend(binary_buffer, call.bit, binary_buffer_maxlen)
    /\ Goto("L887")
    /\ UNCHANGED <<toneVars, frequency_buffer, time_buffer, audio_level_buffer,
                   waterfall_data, waterfall_times, logVars, countVars,
                   clock, call, passes, StepRest>>

\* lines 887-894: the binary log
BinaryLog ==
    /\ frame.pc = "L887"
    /\ binary_log' =
          IF log_binary_var
          THEN Append(binary_log,
                  [timestamp |-> frame.current_time,
                   session_time |-> SessionTime(frame.current_time),
                   binary_state |-> call.bit,
                   frequency |-> call.frequency,
                   bit_number |-> Len(binary_log) + 1])
          ELSE binary_log
    /\ Goto("L896")
    /\ UNCHANGED <<toneVars, bufVars, frequency_log, waterfall_log, countVars,
                   clock, call, passes, StepRest>>

\* line 896: self.update_binary_display() rewrites the text widgets
BinaryDisplay ==
    /\ frame.pc = "L896"
    /\ Goto("L899")
    /\ UNCHANGED <<toneVars, bufVars, logVars, countVars, clock, call, passes, StepRest>>

\* lines 899-905: the waterfall log, and the pass returns
WaterfallLog ==
    /\ frame.pc = "L899"
    /\ waterfall_log' =
          IF log_waterfall_var /\ Len(waterfall_data) > 0
          THEN Append(waterfall_log,
                  [timestamp |-> frame.current_time,
                   session_time |-> SessionTime(frame.current_time),
                   frequencies |-> [b \in DOMAIN StepMags(chunks_processed) |->
                                        BinFreq(b, StepWindow)],
                   magnitudes |-> StepMags(chunks_processed)])
          ELSE waterfall_log
    /\ Goto("idle")
    /\ UNCHANGED <<toneVars, bufVars, binary_log, frequency_log, countVars,
                   clock, call, passes, StepRest>>

\* the statements of a pass that can raise: the numeric stage that begins
\* at line 788, the reads of the Tk variables from the analysis thread
\* (lines 872, 887, 899) and update_binary_display (line 896); appending to
\* a deque or to a list does not raise
FaultPoints == {"L788", "L872", "L887", "L896", "L899"}

\* lines 907-910: the statement the pass is at raises; except Exception
\* prints the error and the pass returns
PassFault ==
    /\ frame.pc \in FaultPoints
    /\ frame.faults < MaxFaults
    /\ chunks_processed <= Len(source)
    /\ frame' = [frame EXCEPT !.pc = "idle", !.faulted = TRUE, !.faults = @ + 1]
    /\ UNCHANGED <<toneVars, bufVars, logVars, countVars, clock, call, passes, StepRest>>

\* update_plots, in the GUI thread: line 1549 compares the lengths of the
\* time and frequency buffers, line 1594 stacks the rows of the waterfall
update_plots ==
    /\ view' = [times_match |-> Len(time_buffer) = Len(frequency_buffer),
                rows_bounded |-> Len(waterfall_data) <= max_waterfall_lines]
    /\ UNCHANGED <<toneVars, bufVars, logVars, optVars, countVars, sessVars,
                   threadVars, clock, call, passes, source, frame, report>>

InitSteps ==
    /\ Constructed
    /\ log_binary_var = TRUE
    /\ source \in StepSources

NextSteps ==
    \/ PassBegin
    \/ PassLevel
    \/ WaterfallData
    \/ WaterfallTimes
    \/ WaterfallEvict
    \/ WaterfallEvictTimes
    \/ FskState
    \/ FrequencyAppend
    \/ TimeAppend
    \/ FrequencyLog
    \/ BinaryAppend
    \/ BinaryLog
    \/ BinaryDisplay
    \/ WaterfallLog
    \/ PassFault
    \/ update_plots

SpecSteps == InitSteps /\ [][NextSteps]_vars

(***************************************************************************)
(* Sessions: the GUI thread starts and stops sessions; every start_stream  *)
(* creates a producer thread (stream_audio) and a consumer thread          *)
(* (analyze_audio).  Thread s is the one the s-th start_stream created.    *)
(* A chunk in the queue is [sess, seq, len]: the session whose producer    *)
(* enqueued it, its number among that producer's chunks, and its length.   *)
(* A producer is at "connect" or "open" before its source is open, at      *)
(* "read" (HTTP) or "file" (local file) at the head of its loop, and       *)
(* "done" when it has returned; a consumer is at "loop" at the head of its *)
(* loop, at "get" inside audio_queue.get, and "done" when it has returned. *)
(***************************************************************************)
Urls == {"", "http", "file"}

\* response.iter_content(chunk_size) yields at most chunk_size bytes, and
\* may yield an empty keep-alive chunk
HttpLens == {0, chunk_size}

\* chunk_size samples of a wav file, 2 bytes each
FileLen == 2 * chunk_size

\* what the windows of a session contain: a data tone or the carrier
SessionLevels == {500}
SessionSpectra == {OneTone(4), OneTone(6)}

\* start_stream without the clearing of the bit buffer
start_stream_keeps_bits(url) ==
    IF url = ""
    THEN UNCHANGED vars
    ELSE
    /\ session < MaxSessions
    /\ is_streaming' = TRUE
    /\ status_var' = "Connecting to stream..."
    /\ clock' = TimeNow
    /\ session_start_time' = clock'
    /\ frequency_buffer' = <<>>
    /\ binary_buffer' = binary_buffer
    /\ time_buffer' = <<>>
    /\ audio_level_buffer' = <<>>
    /\ waterfall_data' = <<>>
    /\ waterfall_times' = <<>>
    /\ binary_log' = <<>>
    /\ frequency_log' = <<>>
    /\ waterfall_log' = <<>>
    /\ passes' = <<>>
    /\ session' = session + 1
    /\ stream_thread' = [stream_thread EXCEPT ![session'] =
            [pc |-> IF url = "file" THEN "open" ELSE "connect", enq |-> 0]]
    /\ analysis_thread' = [analysis_thread EXCEPT ![session'] =
            [pc |-> "loop", buf |-> 0, taken |-> <<>>]]
    /\ UNCHANGED <<toneVars, optVars, countVars, audio_queue, call, source, stepVars, report>>

start_stream(url) ==
    IF url = ""
    THEN UNCHANGED vars
    ELSE
    /\ session < MaxSessions
    /\ is_streaming' = TRUE
    /\ status_var' = "Connecting to stream..."
    /\ clock' = TimeNow
    /\ session_start_time' = clock'
    /\ frequency_buffer' = <<>>
    /\ binary_buffer' = <<>>
    /\ time_buffer' = <<>>
    /\ audio_level_buffer' = <<>>
    /\ waterfall_data' = <<>>
    /\ waterfall_times' = <<>>
    /\ binary_log' = <<>>
    /\ frequency_log' = <<>>
    /\ waterfall_log' = <<>>
    /\ passes' = <<>>
    /\ session' = session + 1
    /\ stream_thread' = [stream_thread EXCEPT ![session'] =
            [pc |-> IF url = "file" THEN "open" ELSE "connect", enq |-> 0]]
    /\ analysis_thread' = [analysis_thread EXCEPT ![session'] =
            [pc |-> "loop", buf |-> 0, taken |-> <<>>]]
    /\ UNCHANGED <<toneVars, optVars, countVars, audio_queue, call, source, stepVars, report>>

stop_stream ==
    /\ is_streaming' = FALSE
    /\ status_var' = "Stream stopped"
    /\ UNCHANGED <<toneVars, bufVars, logVars, optVars, countVars, audio_queue,
                   session_start_time, threadVars, clock, call, passes, source, stepVars, report>>

toggle_stream(url) ==
    IF ~is_streaming THEN start_stream(url) ELSE stop_stream

(***************************************************************************)
(* stream_audio(url) and stream_local_file(filepath), thread s             *)
(***************************************************************************)
ProducerFrame == <<toneVars, bufVars, logVars, optVars, chunks_processed,
                   last_audio_time, session_start_time, session, analysis_thread,
                   clock, call, passes, source, stepVars, report>>

\* the except clause of stream_audio
StreamError(s) ==
    /\ status_var' = "Stream error"
    /\ is_streaming' = FALSE
    /\ stream_thread' = [stream_thread EXCEPT ![s].pc = "done"]
    /\ UNCHANGED <<audio_queue, bytes_received, ProducerFrame>>

\* requests.get(url, stream=True, timeout=10) and raise_for_status
Connect(s) ==
    /\ stream_thread[s].pc = "connect"
    /\ \/ /\ status_var' = "Connected - Streaming live"
          /\ stream_thread' = [stream_thread EXCEPT ![s].pc = "read"]
          /\ UNCHANGED <<is_streaming, audio_queue, bytes_received, ProducerFrame>>
       \/ StreamError(s)

\* the chunks the sources have delivered so far, all sessions together
RECURSIVE Enqueued(_)
Enqueued(n) == IF n = 0 THEN 0 ELSE stream_thread[n].enq + Enqueued(n - 1)

SourceHasMore == Enqueued(MaxSessions) < MaxChunks

\* self.audio_queue.put(chunk), by the producer of session s
QueuePut(s, len) ==
    Append(audio_queue, [sess |-> s, seq |-> stream_thread[s].enq + 1, len |-> len])

\* for chunk in response.iter_content(...): a chunk of len bytes arrives;
\*     if not self.is_streaming: break
\*     if chunk: self.audio_queue.put(chunk); self.bytes_received += len(chunk)
ReceiveChunk(s, len) ==
    /\ stream_thread[s].pc = "read"
    /\ IF ~is_streaming
       THEN /\ stream_thread' = [stream_thread EXCEPT ![s].pc = "done"]
            /\ UNCHANGED <<audio_queue, bytes_received>>
       ELSE IF len # 0
       THEN /\ audio_queue' = QueuePut(s, len)
            /\ bytes_received' = bytes_received + len
            /\ stream_thread' = [stream_thread EXCEPT ![s].enq = @ + 1]
       ELSE UNCHANGED <<audio_queue, bytes_received, stream_thread>>
    /\ UNCHANGED <<is_streaming, status_var, ProducerFrame>>

Receive(s, len) == SourceHasMore /\ ReceiveChunk(s, len)

\* the response ends: the for loop is exhausted and the thread returns
EndOfStream(s) ==
    /\ stream_thread[s].pc = "read"
    /\ stream_thread' = [stream_thread EXCEPT ![s].pc = "done"]
    /\ UNCHANGED <<is_streaming, status_var, audio_queue, bytes_received, ProducerFrame>>

\* the read fails or times out: the exception reaches the except clause
ReadError(s) ==
    /\ stream_thread[s].pc = "read"
    /\ StreamError(s)

\* wavfile.read(filepath): the file is read, or the except clause of
\* stream_local_file sets the status and the thread returns
OpenFile(s) ==
    /\ stream_thread[s].pc = "open"
    /\ \/ /\ stream_thread' = [stream_thread EXCEPT ![s].pc = "file"]
          /\ UNCHANGED status_var
       \/ /\ stream_thread' = [stream_thread EXCEPT ![s].pc = "done"]
          /\ status_var' = "File error"
    /\ UNCHANGED <<is_streaming, audio_queue, bytes_received, ProducerFrame>>

\* for i in range(0, len(audio_data), chunk_samples):
\*     if not self.is_streaming: break
\*     self.audio_queue.put(chunk_bytes); time.sleep(...)
FileNext(s) ==
    /\ stream_thread[s].pc = "file"
    /\ SourceHasMore
    /\ IF ~is_streaming
       THEN /\ stream_thread' = [stream_thread EXCEPT ![s].pc = "done"]
            /\ UNCHANGED audio_queue
       ELSE /\ audio_queue' = QueuePut(s, FileLen)
            /\ stream_thread' = [stream_thread EXCEPT ![s].enq = @ + 1]
    /\ UNCHANGED <<is_streaming, status_var, bytes_received, ProducerFrame>>

\* the range is exhausted: the end of the file
EndOfFile(s) ==
    /\ stream_thread[s].pc = "file"
    /\ stream_thread' = [stream_thread EXCEPT ![s].pc = "done"]
    /\ UNCHANGED <<is_streaming, status_var, audio_queue, bytes_received, ProducerFrame>>

stream_audio(s) ==
    \/ Connect(s)
    \/ \E len \in HttpLens : Receive(s, len)
    \/ EndOfStream(s)
    \/ ReadError(s)
    \/ OpenFile(s)
    \/ FileNext(s)
    \/ EndOfFile(s)

(***************************************************************************)
(* analyze_audio, thread s                                                 *)
(***************************************************************************)
ConsumerFrame == <<toneVars, bufVars, logVars, optVars, countVars, sessVars,
                   session, stream_thread, clock, call, passes, source, stepVars, report>>

\* a loop head that never looks at the flag
LoopHead_unchecked(s) ==
    /\ analysis_thread[s].pc = "loop"
    /\ analysis_thread' = [analysis_thread EXCEPT ![s].pc = "get"]
    /\ UNCHANGED ConsumerFrame

\* while self.is_streaming:
LoopHead(s) ==
    /\ analysis_thread[s].pc = "loop"
    /\ analysis_thread' = [analysis_thread EXCEPT
            ![s].pc = IF is_streaming THEN "get" ELSE "done"]
    /\ UNCHANGED ConsumerFrame

\* an analyze_audio whose buffer is never cut: the pass runs and the buffer
\* keeps every byte received
Take_keeps_all(s, level, mags) ==
    /\ analysis_thread[s].pc = "get"
    /\ audio_queue # <<>>
    /\ LET chunk == Head(audio_queue)
           audio_buffer == analysis_thread[s].buf + chunk.len
       IN  /\ audio_queue' = Tail(audio_queue)
           /\ analysis_thread' = [analysis_thread EXCEPT
                    ![s].buf = audio_buffer,
                    ![s].taken = Append(@, <<chunk.sess, chunk.seq>>),
                    ![s].pc = "loop"]
           /\ IF audio_buffer >= chunk_size * 4
              THEN process_audio_chunk(Bytes(audio_buffer), level, mags)
              ELSE UNCHANGED <<toneVars, bufVars, logVars, chunks_processed,
                               last_audio_time, clock, call, passes>>
    /\ UNCHANGED <<optVars, bytes_received, is_streaming, status_var,
                   session_start_time, session, stream_thread, source, stepVars, report>>

\* chunk = self.audio_queue.get(timeout=1.0) returns a chunk;
\* audio_buffer.extend(chunk); the pass, when 4 * chunk_size bytes are there,
\* and audio_buffer = audio_buffer[self.chunk_size * 2:]
Take(s, level, mags) ==
    /\ analysis_thread[s].pc = "get"
    /\ audio_queue # <<>>
    /\ LET chunk == Head(audio_queue)
           audio_buffer == analysis_thread[s].buf + chunk.len
       IN  /\ audio_queue' = Tail(audio_queue)
           /\ IF audio_buffer >= chunk_size * 4
              THEN /\ process_audio_chunk(Bytes(audio_buffer), level, mags)
                   /\ analysis_thread' = [analysis_thread EXCEPT
                        ![s].buf = audio_buffer - chunk_size * 2,
                        ![s].taken = Append(@, <<chunk.sess, chunk.seq>>),
                        ![s].pc = "loop"]
              ELSE /\ analysis_thread' = [analysis_thread EXCEPT
                        ![s].buf = audio_buffer,
                        ![s].taken = Append(@, <<chunk.sess, chunk.seq>>),
                        ![s].pc = "loop"]
                   /\ UNCHANGED <<toneVars, bufVars, logVars, chunks_processed,
                                  last_audio_time, clock, call, passes>>
    /\ UNCHANGED <<optVars, bytes_received, is_streaming, status_var,
                   session_start_time, session, stream_thread, source, stepVars, report>>

\* the get times out on an empty queue: except queue.Empty: continue
GetTimeout(s) ==
    /\ analysis_thread[s].pc = "get"
    /\ audio_queue = <<>>
    /\ analysis_thread' = [analysis_thread EXCEPT ![s].pc = "loop"]
    /\ UNCHANGED ConsumerFrame

analyze_audio(s) ==
    \/ LoopHead(s)
    \/ \E l \in SessionLevels, m \in SessionSpectra : Take(s, l, m)
    \/ GetTimeout(s)

Next ==
    \/ \E url \in Urls : toggle_stream(url)
    \/ \E s \in 1..MaxSessions : stream_audio(s)
    \/ \E s \in 1..MaxSessions : analyze_audio(s)

Spec == Init /\ [][Next]_vars

\* The interpreter keeps scheduling the threads, and each of their blocking
\* waits ends (a chunk, the end of the source, the 10 s read timeout, the
\* 1 s queue timeout): while some task can take a step, a task takes one.
TaskStep == \E s \in 1..MaxSessions : stream_audio(s) \/ analyze_audio(s)

FairSpec == Spec /\ WF_vars(TaskStep)

(***************************************************************************)
(* One HTTP session whose response arrives in chunks of any size up to     *)
(* chunk_size (iter_content yields what a read returned) or in pieces of   *)
(* two chunks; the source delivers a chunk once the consumer has taken the *)
(* previous one.                                                           *)
(***************************************************************************)
MaxOverlapChunks == 5

OverlapLens == {chunk_size, chunk_size - 2, 2 * chunk_size}

OverlapStart == session = 0 /\ start_stream("http")

OverlapReceive(len) ==
    /\ stream_thread[1].enq < MaxOverlapChunks
    /\ audio_queue = <<>>
    /\ ReceiveChunk(1, len)

NextOverlap ==
    \/ OverlapStart
    \/ Connect(1)
    \/ \E len \in OverlapLens : OverlapReceive(len)
    \/ analyze_audio(1)

SpecOverlap == Init /\ [][NextOverlap]_vars

(***************************************************************************)
(* Sessions one after the other: start_stream is called again only when    *)
(* both tasks of the session before have returned, so one consumer is      *)
(* alive at a time.  Each HTTP session delivers up to MaxRestartChunks      *)
(* chunks of chunk_size bytes: a pass after the fourth and after the sixth. *)
(***************************************************************************)
MaxRestartChunks == 6

RestartStart ==
    /\ ~is_streaming
    /\ \A s \in 1..MaxSessions :
          stream_thread[s].pc \in {"none", "done"} /\ analysis_thread[s].pc \in {"none", "done"}
    /\ start_stream("http")

RestartStop == is_streaming /\ stop_stream

RestartReceive ==
    /\ session >= 1
    /\ stream_thread[session].enq < MaxRestartChunks
    /\ ReceiveChunk(session, chunk_size)

NextRestart ==
    \/ RestartStart
    \/ RestartStop
    \/ \E s \in 1..MaxSessions : Connect(s)
    \/ RestartReceive
    \/ \E s \in 1..MaxSessions : EndOfStream(s)
    \/ \E s \in 1..MaxSessions : analyze_audio(s)

SpecRestart == Init /\ [][NextRestart]_vars

(***************************************************************************)
(* Claims about the classifier (under SpecTone)                            *)
(***************************************************************************)
Called == call.frequency # None

\* C1: for every frequency passed to the bit decision the result is bit 0
\* exactly when the frequency is within 0.5 Hz of 21.53 Hz, bit 1 exactly
\* when that fails and it is within 0.5 Hz of 26.92 Hz, and no bit otherwise.
C1_BitDecision ==
    Called =>
        LET f == call.frequency
            near0 == Abs(f - 2153) <= 50
            near1 == Abs(f - 2692) <= 50
        IN  /\ (call.bit = 0) <=> near0
            /\ (call.bit = 1) <=> (~near0 /\ near1)
            /\ (call.bit = None) <=> (~near0 /\ ~near1)

\* C1 witness: a frequency on the edge of tone 0's tight band was decided
\* as bit 0, and the classifier has also been called on other frequencies.
C1_Witness == call.frequency = 2203 /\ call.bit = 0 /\ clock >= 2

\* C4 (as claimed): the label of every classification uses the wide
\* tolerance (2 x 0.5 Hz): a frequency within 1.0 Hz of a tone receives that
\* tone's label, in the return value and in current_fsk_state.
C4_LabelUsesWideTolerance ==
    Called =>
        \A i \in 1..3 :
            Abs(call.frequency - uvb76_frequencies[i]) <= 2 * freq_tolerance
                => /\ call.label = fsk_label(uvb76_frequencies[i])
                   /\ current_fsk_state = fsk_label(uvb76_frequencies[i])

\* C5 (as claimed): every event of the FSK history after the first carries
\* as duration the time elapsed since the previous transition.
C5_DurationSincePreviousTransition ==
    \A i \in 2..Len(fsk_state_history) :
        fsk_state_history[i].duration =
            fsk_state_history[i].timestamp - fsk_state_history[i - 1].timestamp

(***************************************************************************)
(* Claims about the passes of a session (under SpecPass and SpecRing)      *)
(***************************************************************************)
\* the tone classes of the specification: the bit of a peak, or None
DataBit(f) ==
    IF f = None THEN None
    ELSE IF Abs(f - 2153) <= 50 THEN 0
    ELSE IF Abs(f - 2692) <= 50 THEN 1
    ELSE None

IsDataPass(p) == DataBit(p.peak) # None

\* the bits of the passes classified DataZero or DataOne, in pass order
DataBits == LET d == SelectSeq(passes, IsDataPass)
            IN  [i \in 1..Len(d) |-> DataBit(d[i].peak)]

LogBits == [i \in 1..Len(binary_log) |-> binary_log[i].binary_state]

LoggedThroughout == \A i \in 1..Len(passes) : passes[i].logged

LastN(q, n) == SubSeq(q, Len(q) - Min(Len(q), n) + 1, Len(q))

\* C2: with binary logging enabled throughout, the bits of binary_log are,
\* in pass order, exactly the passes whose peak was classified DataZero or
\* DataOne; carrier, unknown and no-peak passes add nothing to binary_log or
\* to binary_buffer.
C2_LogIsDataSubsequence ==
    /\ LoggedThroughout => LogBits = DataBits
    /\ binary_buffer = LastN(DataBits, 500)

\* C2 witness: tone 0, carrier, tone 1 were seen; the log holds 0, 1 alone.
C2_Witness ==
    /\ LoggedThroughout
    /\ Len(passes) = 3
    /\ passes[1].peak = 2153 /\ passes[2].peak = 3230 /\ passes[3].peak = 2692
    /\ LogBits = <<0, 1>>

\* C3: after n data bits the display buffer holds exactly the last
\* min(n, 500) of them in their order, and binary_log, when logging is
\* enabled, holds all n in order.
C3_RingSemantics ==
    /\ binary_buffer = LastN(DataBits, 500)
    /\ Len(binary_buffer) = Min(Len(DataBits), 500)
    /\ LoggedThroughout => LogBits = DataBits

\* C3 witness: 600 bits inserted, the last 500 displayed, 600 logged.
C3_Witness ==
    /\ Len(DataBits) = 600
    /\ Len(binary_buffer) = 500
    /\ Len(binary_log) = 600

(***************************************************************************)
(* Claims about sessions and the two tasks (under Spec and FairSpec)       *)
(***************************************************************************)
ProducerAlive(s) == stream_thread[s].pc \notin {"none", "done"}
ConsumerAlive(s) == analysis_thread[s].pc \notin {"none", "done"}

\* start_stream has run and neither thread of the new session has acted
JustStarted ==
    /\ session >= 1
    /\ stream_thread[session].pc \in {"connect", "open"}
    /\ analysis_thread[session].pc = "loop"
    /\ analysis_thread[session].taken = <<>>

\* C6 (as claimed): after start_stream and before the new session's tasks
\* take their first step, every bounded buffer, the FSK history and state,
\* every log and every counter is empty or zero.
C6_ResetBarrier ==
    JustStarted =>
        /\ frequency_buffer = <<>> /\ binary_buffer = <<>> /\ time_buffer = <<>>
        /\ audio_level_buffer = <<>>
        /\ waterfall_data = <<>> /\ waterfall_times = <<>>
        /\ fsk_state_history = <<>> /\ current_fsk_state = NoState
        /\ binary_log = <<>> /\ frequency_log = <<>> /\ waterfall_log = <<>>
        /\ bytes_received = 0 /\ chunks_processed = 0

\* C7 (as claimed): at most one producer task and at most one consumer task
\* are alive at any time.
C7_SinglePair ==
    /\ Cardinality({s \in 1..MaxSessions : ProducerAlive(s)}) <= 1
    /\ Cardinality({s \in 1..MaxSessions : ConsumerAlive(s)}) <= 1

\* the chunks of session s that are in the queue or that a consumer took
InQueue(s) == Len(SelectSeq(audio_queue, LAMBDA c : c.sess = s))
RECURSIVE TakenOf(_, _)
TakenOf(s, n) ==
    IF n = 0 THEN 0
    ELSE Len(SelectSeq(analysis_thread[n].taken, LAMBDA c : c[1] = s)) + TakenOf(s, n - 1)

\* C8 (as claimed): while a session is streaming no chunk is dropped or
\* reordered: every chunk its producer enqueued is in the queue or was taken,
\* and the chunks its consumer took are the first chunks of its producer, in
\* the producer's order.
C8_NoDropNoReorder ==
    /\ \A s \in 1..session :
          stream_thread[s].enq = InQueue(s) + TakenOf(s, MaxSessions)
    /\ is_streaming =>
          \A j \in 1..Len(analysis_thread[session].taken) :
              analysis_thread[session].taken[j] = <<session, j>>

\* C9 (as claimed): the queue has a fixed capacity, so it never holds all
\* the chunks of a source that delivers more than that capacity; in the
\* model the sources deliver MaxChunks chunks.
C9_QueueBounded == Len(audio_queue) < MaxChunks

AllTasksDone == \A s \in 1..MaxSessions : ~ProducerAlive(s) /\ ~ConsumerAlive(s)

\* a step of a thread at its loop head that finds the flag cleared ends the
\* thread and enqueues nothing; a thread that has returned does nothing more
StopRespected ==
    \A s \in 1..MaxSessions :
        /\ (~is_streaming /\ stream_thread[s].pc \in {"read", "file"}
                /\ stream_thread'[s] # stream_thread[s])
              => (stream_thread'[s].pc = "done" /\ audio_queue' = audio_queue)
        /\ (~is_streaming /\ analysis_thread[s].pc = "loop"
                /\ analysis_thread'[s] # analysis_thread[s])
              => (analysis_thread'[s].pc = "done" /\ chunks_processed' = chunks_processed)
        /\ stream_thread[s].pc = "done" => stream_thread'[s] = stream_thread[s]
        /\ analysis_thread[s].pc = "done" => analysis_thread'[s] = analysis_thread[s]

\* C10: once the flag is cleared, and unless a new session sets it again,
\* every task eventually terminates; a task that finds the flag cleared at
\* its loop head neither enqueues nor processes a chunk afterwards.
C10_StopTerminates ==
    /\ (~is_streaming) ~> (is_streaming \/ AllTasksDone)
    /\ [][StopRespected]_vars

\* C10 witness: a session that enqueued and processed audio was stopped by
\* stop_stream and both of its tasks have returned.
C10_Witness ==
    /\ ~is_streaming /\ status_var = "Stream stopped"
    /\ session = 1
    /\ stream_thread[1].pc = "done" /\ stream_thread[1].enq > 0
    /\ analysis_thread[1].pc = "done" /\ chunks_processed > 0

\* the status line shows a source failure
ErrorStatus == status_var \in {"Stream error", "File error"}

\* C11 (as claimed): when the status shows a source failure (HTTP connect or
\* read error, local-file read error) the session is no longer marked
\* streaming, so that the consumer stops and the next toggle_stream starts a
\* fresh session.
C11_ErrorEndsSession == ErrorStatus => ~is_streaming

(***************************************************************************)
(* Claims about the decoder (under SpecDecode)                             *)
(***************************************************************************)
\* the three interpretations of a buffer, as the specification names them
ValidAs(b, itemsize) == b.len % itemsize = 0 /\ b.len \div itemsize >= 100
Int16LE(b) == Signed16(b.head[1] + 256 * b.head[2])
Int16BE(b) == Signed16(256 * b.head[1] + b.head[2])

\* C12: the decoder returns the first of int16 little-endian, float32 and
\* int16 big-endian that parses to at least 100 samples; a buffer valid both
\* as int16-LE and as float32 is decoded as int16-LE, its values divided by
\* 32768.
C12_EncodingPriority ==
    \A i \in 1..Len(passes) :
        LET b == passes[i].bytes
            a == passes[i].audio
        IN  /\ ValidAs(b, 2) =>
                /\ a.encoding = "int16-le" /\ a.samples = b.len \div 2
                /\ a.raw = Int16LE(b) /\ a.div = 32768
            /\ (~ValidAs(b, 2) /\ ValidAs(b, 4)) =>
                /\ a.encoding = "float32" /\ a.samples = b.len \div 4
            /\ (~ValidAs(b, 2) /\ ~ValidAs(b, 4)) => a = NoAudio
            /\ (ValidAs(b, 2) /\ ValidAs(b, 4)) =>
                /\ a.encoding = "int16-le"
                /\ a.raw = Int16LE(b) /\ a.div = 32768

\* C12 witness: a buffer of 400 bytes, valid as 200 int16 and as 100 float32
\* samples and different under the three interpretations, was decoded as
\* int16 little-endian.
C12_Witness ==
    \E i \in 1..Len(passes) :
        /\ passes[i].bytes = [len |-> 400, head |-> <<255, 127, 52, 18>>]
        /\ passes[i].audio.encoding = "int16-le"
        /\ passes[i].audio.raw = 32767
        /\ Int16BE(passes[i].bytes) # 32767

\* the step is an analysis pass, and its buffer could not be decoded
PassStep == Len(passes') = Len(passes) + 1
UndecodableStep == PassStep /\ passes'[Len(passes')].audio = NoAudio

\* C13: a pass whose buffer no encoding parses to at least 100 samples is
\* skipped: the audio-level, waterfall, frequency and bit buffers, the FSK
\* state and history and the logs are unchanged, the counter of passes is
\* incremented, and the consumer goes on to later chunks.
C13_DecodeFailureSkipsPass ==
    [][UndecodableStep =>
          /\ UNCHANGED <<bufVars, logVars, toneVars>>
          /\ chunks_processed' = chunks_processed + 1]_vars

\* C13 witness: a data pass, then a pass that could not be decoded, then a
\* pass that was processed and added a bit.
C13_Witness ==
    /\ Len(passes) = 3
    /\ passes[1].peak = 2153
    /\ passes[2].audio = NoAudio
    /\ passes[3].peak = 2692
    /\ binary_buffer = <<0, 1>>
    /\ Len(audio_level_buffer) = 2
    /\ chunks_processed = 3

(***************************************************************************)
(* Claims about a pass and its readers (under SpecSteps)                   *)
(***************************************************************************)
\* C14 (as claimed): in every state, the states in the middle of a pass
\* included, no bounded buffer holds more entries than its capacity: 500
\* bits, 50 FSK events, 1000 frequencies, 100 waterfall lines.
C14_CapacityNeverExceeded ==
    /\ Len(binary_buffer) <= 500
    /\ Len(fsk_state_history) <= 50
    /\ Len(frequency_buffer) <= 1000
    /\ Len(waterfall_data) <= 100
    /\ view.rows_bounded

\* C17 (as claimed): a display refresh that runs concurrently with a pass
\* never finds the frequency and time buffers of different lengths, and the
\* waterfall lines and their times never differ in number.
C17_ReadersSeeWholePasses ==
    /\ view.times_match
    /\ Len(waterfall_data) = Len(waterfall_times)

\* C18 (as claimed): a pass that raises is discarded as a whole: once the
\* exception is caught, every shared buffer, every log and the FSK state
\* hold exactly the values they had before the pass began.
C18_FailedPassLeavesNoTrace ==
    (frame.pc = "idle" /\ frame.faulted) =>
        <<toneVars, bufVars, logVars>> = frame.before

(***************************************************************************)
(* Claims about the consumer's buffer (under SpecOverlap)                  *)
(***************************************************************************)
\* the consumer of the session takes a chunk from the queue
TakeStep == Len(analysis_thread'[1].taken) = Len(analysis_thread[1].taken) + 1

\* the bytes buffered once the chunk is appended
Buffered == analysis_thread[1].buf + Head(audio_queue).len

\* C15 (as claimed): a pass runs exactly when, after appending a chunk, the
\* buffered audio has reached 4 x chunk_size bytes, and after every pass the
\* consumer retains exactly the trailing half of the buffer that was
\* analysed, whatever the sizes of the chunks received.
C15_HalfOverlap ==
    [][TakeStep =>
          /\ PassStep <=> (Buffered >= 4 * 4096)
          /\ PassStep => analysis_thread'[1].buf * 2 = Buffered]_vars

(***************************************************************************)
(* Claims about the peak selection (under SpecPeak)                        *)
(***************************************************************************)
\* the frequency of bin k of a window of 8192 samples, in hundredths of Hz;
\* bin 64 lies at 344.5 Hz, far above the band
Hz(k) == (k * 44100 * 100 + 4096) \div 8192
InBand == { k \in 0..64 : 2000 <= Hz(k) /\ Hz(k) <= 3400 }

\* the i-th pass selected the strongest in-band bin that reaches the
\* threshold, the lowest one when several are equally strong, or none
SelectedAsSpecified(i) ==
    LET mags == waterfall_data[i]
        strong == { k \in InBand : mags[k] >= 15 }
    IN  /\ DOMAIN mags = InBand
        /\ IF strong = {} THEN passes[i].peak = None
           ELSE \E k \in strong :
                  /\ passes[i].peak = Hz(k)
                  /\ \A j \in strong : mags[j] <= mags[k]
                  /\ \A j \in strong : mags[j] = mags[k] => k <= j

NoPeakStep == PassStep /\ passes'[Len(passes')].peak = None

\* C16: among the bins in [20.0, 34.0] Hz with magnitude >= 15.0 a pass
\* selects the one of maximum magnitude, the lowest frequency index among
\* equals; when no in-band bin reaches the threshold no peak is emitted and
\* the pass changes no classifier, frequency or bit state.
C16_PeakSelection ==
    /\ [](\A i \in 1..Len(waterfall_data) : SelectedAsSpecified(i))
    /\ [][NoPeakStep =>
            UNCHANGED <<toneVars, frequency_buffer, time_buffer, binary_buffer,
                        binary_log, frequency_log>>]_vars

\* C16 witness: a pass over a tie of the two upper bins above a weaker lower
\* bin selected 26.92 Hz, and a pass without a significant bin followed and
\* left the bit of the first pass alone.
C16_Witness ==
    /\ Len(passes) = 2
    /\ waterfall_data[1] = (4 :> 20 @@ 5 :> 30 @@ 6 :> 30)
    /\ passes[1].peak = 2692
    /\ waterfall_data[2] = (4 :> 10 @@ 5 :> 10 @@ 6 :> 10)
    /\ passes[2].peak = None
    /\ binary_buffer = <<1>>

(***************************************************************************)
(* Claims about the pattern decoder (under SpecPattern)                    *)
(***************************************************************************)
Reported == report # NoReport

\* C19: on fewer than 8 bits analyze_patterns returns the insufficient-data
\* report and decode_binary_sequence its error entry alone: no codec has
\* produced a result and the repeating-substring scan has reported nothing.
C19_InsufficientData ==
    (Reported /\ Len(report.bits) < 8) =>
        /\ report.analysis.type = "str"
        /\ report.analysis.text = "Insufficient data"
        /\ report.analysis.patterns = <<>>
        /\ report.analysis.decoded = NoResults
        /\ report.decoded.keys = {"error"}
        /\ report.decoded = [NoResults EXCEPT !.keys = {"error"},
                                !.error = "Need at least 8 bits for decoding"]

\* C19 witness: a report on seven bits.
C19_Witness ==
    /\ report.bits = <<1, 0, 1, 0, 1, 0, 1>>
    /\ report.analysis.text = "Insufficient data"
    /\ report.decoded.error = "Need at least 8 bits for decoding"

\* the value of the g-th group of 8 (of 4) bits, most significant bit first
ByteValue(b, g) ==
    LET o == 8 * (g - 1)
    IN  128 * b[o + 1] + 64 * b[o + 2] + 32 * b[o + 3] + 16 * b[o + 4]
        + 8 * b[o + 5] + 4 * b[o + 6] + 2 * b[o + 7] + b[o + 8]
NibbleValue(b, g) ==
    LET o == 4 * (g - 1)
    IN  8 * b[o + 1] + 4 * b[o + 2] + 2 * b[o + 3] + b[o + 4]

\* the decimal string of a value below 1000
Dec(v) ==
    IF v >= 100 THEN <<Digits[(v \div 100) + 1], Digits[((v \div 10) % 10) + 1],
                       Digits[(v % 10) + 1]>>
    ELSE IF v >= 10 THEN <<Digits[(v \div 10) + 1], Digits[(v % 10) + 1]>>
    ELSE <<Digits[v + 1]>>

\* what each codec yields for one group
AsciiOf(v) == IF 32 <= v /\ v <= 126 THEN <<Printable[v - 31]>>
              ELSE <<"[">> \o Dec(v) \o <<"]">>
HexOf(v) == <<HexDigits[(v \div 16) + 1], HexDigits[(v % 16) + 1], " ">>

\* the results of the complete groups of the input, one after the other
AllAscii(b) == Concat([g \in 1..(Len(b) \div 8) |-> AsciiOf(ByteValue(b, g))])
AllHex(b) == Concat([g \in 1..(Len(b) \div 8) |-> HexOf(ByteValue(b, g))])
AllBytes(b) == [g \in 1..(Len(b) \div 8) |-> Dec(ByteValue(b, g))]
AllNibbles(b) == [g \in 1..(Len(b) \div 4) |-> Dec(NibbleValue(b, g))]

\* 01000001
LetterA == <<0, 1, 0, 0, 0, 0, 0, 1>>

\* C20 (as claimed): each codec applies its rule to every complete group of
\* the input, whatever its length.
C20_EveryCompleteGroup ==
    (Reported /\ Len(report.bits) >= 8) =>
        /\ report.decoded.ascii_8bit = AllAscii(report.bits)
        /\ report.decoded.hex_bytes = AllHex(report.bits)
        /\ report.decoded.bytes_decimal = Join(AllBytes(report.bits), <<" ">>)
        /\ report.decoded.nibbles_4bit = Join(AllNibbles(report.bits), <<" ">>)

\* C20 (amended): each codec applies its rule to the complete groups of the
\* input in order and ignores a trailing incomplete group, and the result is
\* cut: ASCII-8 to its first 50 characters, Hex-bytes to its first 60
\* characters, Byte-decimal to the first 15 bytes, Nibble-4 to the first 20
\* nibbles.  For an input of 8 bits nothing is cut; 01000001 yields "A",
\* "41 ", "65" and "4 1".
C20_CodecsCutResults ==
    (Reported /\ Len(report.bits) >= 8) =>
        /\ report.decoded.ascii_8bit = Prefix(AllAscii(report.bits), 50)
        /\ report.decoded.hex_bytes = Prefix(AllHex(report.bits), 60)
        /\ report.decoded.bytes_decimal =
              Join(Prefix(AllBytes(report.bits), 15), <<" ">>)
        /\ report.decoded.nibbles_4bit =
              Join(Prefix(AllNibbles(report.bits), 20), <<" ">>)
        /\ Len(report.bits) = 8 =>
              /\ report.decoded.ascii_8bit = AsciiOf(ByteValue(report.bits, 1))
              /\ report.decoded.hex_bytes = HexOf(ByteValue(report.bits, 1))
              /\ report.decoded.bytes_decimal = Dec(ByteValue(report.bits, 1))
              /\ report.decoded.nibbles_4bit =
                    Dec(NibbleValue(report.bits, 1)) \o <<" ">>
                        \o Dec(NibbleValue(report.bits, 2))
        /\ report.bits = LetterA =>
              /\ report.decoded.ascii_8bit = <<"A">>
              /\ report.decoded.hex_bytes = <<"4", "1", " ">>
              /\ report.decoded.bytes_decimal = <<"6", "5">>
              /\ report.decoded.nibbles_4bit = <<"4", " ", "1">>

\* C20 witness: 88 bits, eleven bytes "A": eleven characters and eleven
\* bytes in full, and the first 20 of the 22 nibbles.
C20_Witness ==
    /\ report.bits = RepeatBits(LetterA, 88)
    /\ report.decoded.ascii_8bit = [i \in 1..11 |-> "A"]
    /\ Len(report.decoded.hex_bytes) = 33
    /\ report.decoded.nibbles_4bit =
          Join([g \in 1..20 |-> IF g % 2 = 1 THEN <<"4">> ELSE <<"1">>], <<" ">>)

(***************************************************************************)
(* Claims about the Monolit heuristic (under SpecMonolit)                  *)
(***************************************************************************)
\* the ASCII rendering of the complete bytes of a bit stream
Rendering(b) ==
    [g \in 1..(Len(b) \div 8) |->
        IF 32 <= ByteValue(b, g) /\ ByteValue(b, g) <= 126
        THEN Printable[ByteValue(b, g) - 31] ELSE "."]

\* an alphanumeric substring of length n at position i, immediately repeated
RepeatedAt(text, i, n) ==
    /\ i + 2 * n - 1 <= Len(text)
    /\ \A k \in i..(i + n - 1) : IsAlnum(text[k]) /\ text[k] = text[k + n]

HasRepeat(text) == \E n \in 3..5 : \E i \in 1..Len(text) : RepeatedAt(text, i, n)

\* a group of exactly n digits: the digits at i..i+n-1, none before or after
DigitGroupAt(text, i, n) ==
    /\ i + n - 1 <= Len(text)
    /\ \A k \in i..(i + n - 1) : IsDigit(text[k])
    /\ i = 1 \/ ~IsDigit(text[i - 1])
    /\ i + n > Len(text) \/ ~IsDigit(text[i + n])

HasDigitGroup(text, n) == \E i \in 1..Len(text) : DigitGroupAt(text, i, n)

\* a word of 4 to 6 letters accepted by Letter, no word character before or
\* after it
HasWord(text, Letter(_)) ==
    \E n \in 4..6 : \E i \in 1..Len(text) :
        /\ i + n - 1 <= Len(text)
        /\ \A k \in i..(i + n - 1) : Letter(text[k])
        /\ i = 1 \/ ~IsWordChar(text[i - 1])
        /\ i + n > Len(text) \/ ~IsWordChar(text[i + n])

IsLetter(c) == IsUpper(c) \/ IsLower(c)

Detected == report # NoReport /\ Len(report.bits) >= 64

NoneBand == "NONE - No clear Monolit patterns"

\* C21: a stream of at least 64 bits whose ASCII rendering holds no
\* immediately repeated alphanumeric substring of length 3, 4 or 5, no group
\* of 5 or of 8 digits and no uppercase word of 4 to 6 letters scores 0 and
\* is reported with likelihood NONE.
C21_CleanStreamScoresNone ==
    Detected =>
        LET text == Rendering(report.bits)
        IN  (/\ ~HasRepeat(text)
             /\ ~HasDigitGroup(text, 5) /\ ~HasDigitGroup(text, 8)
             /\ ~HasWord(text, IsUpper))
            => /\ report.monolit.score = 0
               /\ report.monolit.monolit_likelihood = NoneBand

\* Where C21 fails, the rendering holds a word of 4 to 6 letters that are
\* not all capitals: without such a word either, the score is 0.
C21_NoWordOfEitherCase ==
    Detected =>
        LET text == Rendering(report.bits)
        IN  (/\ ~HasRepeat(text)
             /\ ~HasDigitGroup(text, 5) /\ ~HasDigitGroup(text, 8)
             /\ ~HasWord(text, IsLetter))
            => /\ report.monolit.score = 0
               /\ report.monolit.monolit_likelihood = NoneBand

Weight(found, points) == IF found THEN points ELSE 0

\* the band of a score
BandOf(score) ==
    IF score >= 70 THEN "HIGH" ELSE IF score >= 40 THEN "MEDIUM"
    ELSE IF score >= 20 THEN "LOW" ELSE "NONE"

\* the first word of a likelihood text
BandReported(likelihood) ==
    CASE likelihood = "HIGH - Strong Monolit characteristics" -> "HIGH"
      [] likelihood = "MEDIUM - Some Monolit patterns" -> "MEDIUM"
      [] likelihood = "LOW - Few Monolit indicators" -> "LOW"
      [] likelihood = NoneBand -> "NONE"
      [] OTHER -> "?"

\* C22: the score is 30 for any call-sign candidate plus 25 for any 5-digit
\* group plus 25 for any 8-digit group plus 20 for any code-word candidate,
\* the band follows the score (HIGH from 70, MEDIUM from 40, LOW from 20,
\* NONE below), and every immediately repeated alphanumeric substring of
\* length 3, 4 or 5 of the rendering, wherever it lies, is a call-sign
\* candidate.
C22_ScoreAndBands ==
    Detected =>
        LET m == report.monolit
            text == Rendering(report.bits)
        IN  /\ m.score = Weight(m.callsign_candidates # <<>>, 30)
                         + Weight(m.five_digit_groups # <<>>, 25)
                         + Weight(m.eight_digit_blocks # <<>>, 25)
                         + Weight(m.code_word_candidates # <<>>, 20)
            /\ BandReported(m.monolit_likelihood) = BandOf(m.score)
            /\ \A n \in 3..5 : \A i \in 1..Len(text) :
                  RepeatedAt(text, i, n) =>
                      /\ m.callsign_candidates # <<>>
                      /\ m.score >= 30

\* C22 without its last part: the sum and the bands alone
C22_SumAndBandsAlone ==
    Detected =>
        LET m == report.monolit
        IN  /\ m.score = Weight(m.callsign_candidates # <<>>, 30)
                         + Weight(m.five_digit_groups # <<>>, 25)
                         + Weight(m.eight_digit_blocks # <<>>, 25)
                         + Weight(m.code_word_candidates # <<>>, 20)
            /\ BandReported(m.monolit_likelihood) = BandOf(m.score)

(***************************************************************************)
(* Claims about the repeating-substring scan (under SpecPattern)           *)
(***************************************************************************)
\* the substrings of a window length that occur more than twice, the
\* occurrences counted as str.count counts them (without overlap)
Repeating(text) ==
    { w \in UNION { { SubSeq(text, i, i + n - 1) : i \in 1..(Len(text) - n + 1) } :
                      n \in {4, 8, 16} } :
        Count(text, w) > 2 }

\* the report that names nothing
NothingReported(entries) == Len(entries) = 1 /\ entries[1] \in STRING

\* C23: for the window lengths 4, 8 and 16 a substring of the bit string is
\* reported exactly when it occurs more than twice; at most 5 entries are
\* reported, each with the number of occurrences of its pattern; when no
\* substring qualifies the report is the single entry "No clear patterns".
C23_ScanReportsRepeats ==
    (Reported /\ Len(report.bits) >= 8) =>
        LET text == BitString(report.bits)
            entries == report.analysis.patterns
        IN  IF Repeating(text) = {}
            THEN NothingReported(entries) /\ entries[1] = "No clear patterns"
            ELSE /\ ~NothingReported(entries)
                 /\ Len(entries) <= 5
                 /\ \A k \in 1..Len(entries) :
                       /\ entries[k].pattern \in Repeating(text)
                       /\ entries[k].count = Count(text, entries[k].pattern)
                 /\ \A w \in Repeating(text) :
                       \E k \in 1..Len(entries) : entries[k].pattern = w

\* C23, the part that holds: at most 5 entries, each a window of length 4, 8
\* or 16 that str.count finds more than twice, or the single entry
\* "No clear patterns".
C23_EntriesAreCounted ==
    (Reported /\ Len(report.bits) >= 8) =>
        LET text == BitString(report.bits)
            entries == report.analysis.patterns
        IN  /\ Len(entries) \in 1..5
            /\ ~NothingReported(entries) =>
                  \A k \in 1..Len(entries) :
                      /\ Len(entries[k].pattern) \in {4, 8, 16}
                      /\ entries[k].count = Count(text, entries[k].pattern)
                      /\ entries[k].count > 2

(***************************************************************************)
(* Claims about the FSK history (under SpecRing)                           *)
(***************************************************************************)
\* a pass that classified its peak, and the label it gave
ClassifyStep ==
    /\ Len(passes') = Len(passes) + 1
    /\ passes'[Len(passes')].peak # None
    /\ IsUvbFrequency(passes'[Len(passes')].peak)

ClassifiedLabel == fsk_label(passes'[Len(passes')].peak)

\* the history after the step is the history before it with one event of
\* the label appended, the oldest event evicted when the ring was full
EventAppended(label) ==
    /\ fsk_state_history' # <<>>
    /\ fsk_state_history'[Len(fsk_state_history')].state = label
    /\ SubSeq(fsk_state_history', 1, Len(fsk_state_history') - 1) =
          IF Len(fsk_state_history) >= 50 THEN Tail(fsk_state_history)
          ELSE fsk_state_history

\* C24: a classification appends an event to fsk_state_history exactly when
\* its label differs from current_fsk_state; any two consecutive events of
\* the history carry different labels; a classification with an unchanged
\* label leaves fsk_state_history, current_fsk_state and last_fsk_change
\* unchanged.
C24_HistoryOnLabelChange ==
    /\ [](\A i \in 2..Len(fsk_state_history) :
             fsk_state_history[i].state # fsk_state_history[i - 1].state)
    /\ [][ClassifyStep =>
             /\ (ClassifiedLabel # current_fsk_state) <=>
                   (fsk_state_history' # fsk_state_history)
             /\ (ClassifiedLabel # current_fsk_state) =>
                   /\ EventAppended(ClassifiedLabel)
                   /\ current_fsk_state' = ClassifiedLabel
             /\ (ClassifiedLabel = current_fsk_state) => UNCHANGED toneVars]_vars

\* C24 witness: a stream of the tones 0, 0, 1 repeated: after 100 passes,
\* a third of them with an unchanged label, the ring is full and has
\* evicted events, and its newest event carries the current label.
C24_Witness ==
    /\ source = <<4, 4, 5>>
    /\ chunks_processed = 100
    /\ Len(fsk_state_history) = 50
    /\ fsk_state_history[1].timestamp > 20
    /\ fsk_state_history[50].state = current_fsk_state

(***************************************************************************)
(* Claims about what one session leaves to the next (under Spec)           *)
(***************************************************************************)
\* C25: a chunk enqueued during one session is never taken by the consumer
\* of a later session, and when start_stream starts a new session the queue
\* holds no chunk of an earlier one.
C25_NoStaleChunks ==
    /\ [](\A s \in 1..session :
             \A j \in 1..Len(analysis_thread[s].taken) :
                 analysis_thread[s].taken[j][1] >= s)
    /\ [][session' # session =>
             \A j \in 1..Len(audio_queue') : audio_queue'[j].sess >= session']_vars

\* the producer of session s fails in this step: the except clause of
\* stream_audio sets the error status and the thread returns
ProducerFails(s) ==
    /\ ProducerAlive(s)
    /\ stream_thread'[s].pc = "done"
    /\ status_var' = "Stream error"

\* C26: a failure of the producer of an earlier session leaves the
\* is_streaming flag of the session started afterwards as it is.
C26_FailureStaysInSession ==
    [][\A s \in 1..MaxSessions :
          (s < session /\ ProducerFails(s)) => is_streaming' = is_streaming]_vars

(***************************************************************************)
(* Claims about the decoder in the pipeline (under SpecDecode)             *)
(***************************************************************************)
\* C27: whatever the length of the buffer, the samples a pass obtains are
\* the int16 little-endian reading of it: every buffer that the float32 or
\* the int16 big-endian attempt would accept is accepted by the int16-LE
\* attempt before them; a buffer of at least 4 * chunk_size bytes fails to
\* decode exactly when its length is odd.
C27_AlwaysInt16LE ==
    \A i \in 1..Len(passes) :
        LET b == passes[i].bytes
            a == passes[i].audio
        IN  /\ a # NoAudio =>
                /\ a.encoding = "int16-le" /\ a.samples = b.len \div 2
                /\ a.raw = Int16LE(b) /\ a.div = 32768
            /\ (ValidAs(b, 4) \/ ValidAs(b, 2)) => a.encoding = "int16-le"
            /\ b.len >= 4 * chunk_size => (a = NoAudio <=> b.len % 2 = 1)

\* C27 witness: a buffer of 4 * chunk_size + 1 bytes was not decoded, and
\* one of 4 * chunk_size + 4 bytes, valid as float32 too and different under
\* the three readings, was decoded as int16 little-endian.
C27_Witness ==
    /\ Len(passes) = 2
    /\ passes[1].bytes.len = 4 * chunk_size + 1
    /\ passes[1].audio = NoAudio
    /\ passes[2].bytes = [len |-> 4 * chunk_size + 4, head |-> <<255, 127, 52, 18>>]
    /\ passes[2].audio.encoding = "int16-le"
    /\ passes[2].audio.raw = 32767

(***************************************************************************)
(* Claims about the gate before the classifier (under SpecGate)            *)
(***************************************************************************)
\* within 2 x 0.5 Hz of one of the three tones
NearTone(f) == Abs(f - 2153) <= 100 \/ Abs(f - 2692) <= 100 \/ Abs(f - 3230) <= 100

\* a pass whose peak lies off every tone
OffToneStep ==
    /\ PassStep
    /\ passes'[Len(passes')].peak # None
    /\ ~NearTone(passes'[Len(passes')].peak)

\* C28: a pass whose peak is not within twice the tolerance of any tone
\* appends a waterfall frame and leaves current_fsk_state, fsk_state_history,
\* frequency_buffer, time_buffer, frequency_log, binary_buffer and binary_log
\* unchanged; the classifier and the bit decision are only ever called with
\* a frequency within twice the tolerance of a tone.
C28_GateBeforeClassifier ==
    /\ [][OffToneStep =>
             /\ Len(waterfall_data') = Len(waterfall_data) + 1
             /\ Len(waterfall_times') = Len(waterfall_times) + 1
             /\ waterfall_times'[Len(waterfall_times')] = clock'
             /\ UNCHANGED <<current_fsk_state, fsk_state_history, frequency_buffer,
                            time_buffer, frequency_log, binary_buffer, binary_log>>]_vars
    /\ [][call' # call => NearTone(call'.frequency)]_vars
    /\ [][toneVars' # toneVars =>
             (PassStep /\ passes'[Len(passes')].peak # None
                 /\ NearTone(passes'[Len(passes')].peak))]_vars

\* C28 witness: a pass over 6000 samples saw a peak at 22.05 Hz, within the
\* wide band of tone 0, and classified it; a pass over 3000 samples then saw
\* its peak at 29.40 Hz: two waterfall frames, one frequency, one event.
C28_Witness ==
    /\ Len(passes) = 2
    /\ passes[1].peak = 2205
    /\ passes[2].peak = 2940
    /\ Len(waterfall_data) = 2
    /\ frequency_buffer = <<2205>>
    /\ Len(fsk_state_history) = 1
    /\ call.frequency = 2205

(***************************************************************************)
(* Claims about the lengths of the buffers and logs (under SpecRestart)    *)
(***************************************************************************)
\* C29: between passes, after any passes and restarts with one consumer at
\* a time, the bit buffer is no longer than the frequency buffer, which is
\* as long as the time buffer, and, both logs being enabled throughout, the
\* binary log is no longer than the frequency log.
C29_BufferLengths ==
    /\ Len(binary_buffer) <= Len(frequency_buffer)
    /\ Len(frequency_buffer) = Len(time_buffer)
    /\ (log_binary_var /\ log_frequency_var) => Len(binary_log) <= Len(frequency_log)

\* C29 witness: the second session, started after a first one that had made
\* a pass, has made two passes, one over a data tone and one over the
\* carrier: two frequencies and times, one bit.
C29_Witness ==
    /\ session = 2
    /\ chunks_processed >= 3
    /\ Len(frequency_buffer) = 2 /\ Len(time_buffer) = 2 /\ Len(binary_buffer) = 1
    /\ Len(frequency_log) = 2 /\ Len(binary_log) = 1

\* C29 at the boundaries of the passes of SpecSteps, which may raise
C29_BetweenSteppedPasses == frame.pc = "idle" => C29_BufferLengths

(***************************************************************************)
(* Claims about the size of the consumer's buffer (under SpecOverlap)      *)
(***************************************************************************)
\* C30: with chunks of at most 2 x chunk_size bytes, the consumer's buffer
\* holds fewer than 4 x chunk_size bytes at the top of every iteration of
\* its loop; taking one chunk runs at most one pass, and a pass removes
\* exactly 2 x chunk_size bytes from the buffer.
C30_BufferBounded ==
    /\ [](analysis_thread[1].pc = "loop" =>
            analysis_thread[1].buf < 4 * chunk_size)
    /\ [][TakeStep =>
            /\ Head(audio_queue).len <= 2 * chunk_size
            /\ Len(passes') <= Len(passes) + 1
            /\ PassStep => analysis_thread'[1].buf = Buffered - 2 * chunk_size]_vars

\* C30 witness: a piece of two chunks arrived on top of 3 x chunk_size - 2
\* buffered bytes, the pass ran over 5 x chunk_size - 2 bytes and the loop
\* is back at its top with 3 x chunk_size - 2 bytes retained.
C30_Witness ==
    /\ analysis_thread[1].pc = "loop"
    /\ Len(passes) >= 1
    /\ passes[Len(passes)].bytes.len = 5 * chunk_size - 2
    /\ analysis_thread[1].buf = 3 * chunk_size - 2

\* C30 for every consumer of the sessions of Spec, HTTP or local file
C30_EveryConsumer ==
    \A s \in 1..MaxSessions : analysis_thread[s].buf < 4 * chunk_size

=============================================================================
